---------------------------- MODULE Spec2Model ----------------------------
(***************************************************************************)
(* A model of the algorithm engines of the ML-VIS visual essays.           *)
(*                                                                         *)
(* Every page of the application is an independent React component; the    *)
(* module holds one group of variables per page and one specification per  *)
(* page (SpecKM, SpecDB, SpecDT, ...), in which the variables of the other *)
(* pages keep their initial values.                                        *)
(*                                                                         *)
(* Numbers.  The source computes with IEEE doubles.  The model computes    *)
(* with exact rationals, held as integer numerator/denominator pairs, on   *)
(* small integer coordinates, so that every comparison the code makes      *)
(* (nearest centroid, distance <= eps, gain > bestGain) is decided exactly.*)
(* Math.random() is a nondeterministic choice from a small finite set.     *)
(***************************************************************************)
EXTENDS Integers, Sequences, FiniteSets, TLC

(***************************************************************************)
(*                              K-MEANS                                    *)
(*                   src/unnamed/part_000, lines 11-145                    *)
(***************************************************************************)

\* The positions of the sliders of the model: point counts 1..KMMaxPoints
\* (10..300 in the source), cluster counts 1..KMMaxClusters (1..6 in the
\* source), and the fixed config.iterations (10 in the source).
KMMaxPoints == 2
KMMaxClusters == 2
KMIterations == 2

\* The values Math.random() * 780 + 10 (x) and Math.random() * 580 + 10 (y) can
\* take.  The two are drawn independently; y has one value here, which keeps
\* the state space small while the arithmetic still carries both coordinates.
KMXs == {0, 2}
KMYs == {0}

\* p.cluster of a point that has no cluster field (undefined).
Undefined == -1

VARIABLES
  config,         \* [points, clusters]: the useState config (iterations is KMIterations)
  data,           \* the useState data: a sequence of [x, y, cluster]
  centroids,      \* the useState centroids: a sequence of [x, y, n], the point (x/n, y/n)
  pendData,       \* the setData queued for the next render (None, Fresh, Commit)
  pendCentroids,  \* the setCentroids queued for the next render
  points,         \* the animation effect's closure variable points
  centers,        \* the animation effect's closure variable centers
  iter,           \* the animation effect's closure variable iter
  runClusters,    \* config.clusters as captured by the closure of the live effect
  raf,            \* TRUE when a requestAnimationFrame(step) is pending (animRef)
  cost            \* the sum of the minDist of the last assignment sub-step (a fraction)

kmVars == <<config, data, centroids, pendData, pendCentroids, points, centers,
            iter, runClusters, raf, cost>>

\* A fresh random point of the domain, lines 27-28 and 36-37.
KMRandomPoints == [x : KMXs, y : KMYs, cluster : {Undefined}]
KMRandomCentroids == [x : KMXs, y : KMYs, n : {1}]

\* (p.x - c.x) ** 2 + (p.y - c.y) ** 2 for the centroid (c.x/c.n, c.y/c.n), as
\* the fraction <<numerator, denominator>>; line 56.
dist(p, c) ==
  <<(p.x * c.n - c.x) * (p.x * c.n - c.x) + (p.y * c.n - c.y) * (p.y * c.n - c.y),
    c.n * c.n>>

\* minDist = Infinity, line 53: greater than every fraction.
Infinity == <<1, 0>>

\* a < b on fractions with non-negative denominators; line 57.
FracLess(a, b) == a[1] * b[2] < b[1] * a[2]

\* The centers.forEach of lines 53-61: the index (from 0) of the first centroid
\* at the least distance, 0 when there is no centroid.
RECURSIVE NearestFrom(_, _, _, _, _)
NearestFrom(p, cs, i, minDist, cluster) ==
  IF i > Len(cs) THEN cluster
  ELSE IF FracLess(dist(p, cs[i]), minDist)
       THEN NearestFrom(p, cs, i + 1, dist(p, cs[i]), i - 1)
       ELSE NearestFrom(p, cs, i + 1, minDist, cluster)

Nearest(p, cs) == NearestFrom(p, cs, 1, Infinity, 0)

\* The assignment sub-step, lines 51-63.
Assign(ps, cs) == [j \in 1..Len(ps) |-> [ps[j] EXCEPT !.cluster = Nearest(ps[j], cs)]]

\* a + b on fractions.
FracAdd(a, b) == <<a[1] * b[2] + b[1] * a[2], a[2] * b[2]>>

\* The sum over the points ps[j..] of minDist as line 58 left it: the distance
\* of the point to the centroid it was assigned to.
RECURSIVE CostFrom(_, _, _)
CostFrom(ps, cs, j) ==
  IF j > Len(ps) THEN <<0, 1>>
  ELSE FracAdd(dist(ps[j], cs[ps[j].cluster + 1]), CostFrom(ps, cs, j + 1))

\* The accumulation of lines 65-73 for the cluster of index c (from 0): a point
\* whose cluster has no entry in sums (cluster >= k) is skipped by line 68.
RECURSIVE SumFrom(_, _, _, _)
SumFrom(ps, c, j, acc) ==
  IF j > Len(ps) THEN acc
  ELSE IF ps[j].cluster = c
       THEN SumFrom(ps, c, j + 1,
                    [x |-> acc.x + ps[j].x, y |-> acc.y + ps[j].y, count |-> acc.count + 1])
       ELSE SumFrom(ps, c, j + 1, acc)

Sums(ps, k) == [c \in 1..k |-> SumFrom(ps, c - 1, 1, [x |-> 0, y |-> 0, count |-> 0])]

\* A centroid with no point is left where it was (a mutant of NewCenter).
NewCenterKeep(s, old, rnd) ==
  IF s.count # 0 THEN [x |-> s.x, y |-> s.y, n |-> s.count] ELSE old

\* The sum of the points is taken for their mean (a mutant of NewCenter).
NewCenterSum(s, old, rnd) ==
  IF s.count # 0 THEN [x |-> s.x, y |-> s.y, n |-> 1] ELSE rnd

\* One entry of centers = sums.map(...), lines 76-79: the mean, or a fresh
\* random point when the count is 0.  old is the centroid replaced.
NewCenter(s, old, rnd) ==
  IF s.count # 0 THEN [x |-> s.x, y |-> s.y, n |-> s.count] ELSE rnd

\* The sequences s of length k with s[c] \in choice[c] for every c.
RECURSIVE SeqsOf(_, _)
SeqsOf(choice, k) ==
  IF k = 0 THEN {<<>>}
  ELSE {Append(s, e) : s \in SeqsOf(choice, k - 1), e \in choice[k]}

\* The random points the update sub-step can draw: one Math.random() pair for
\* each cluster whose count is 0 (a cluster with points draws none; its entry is
\* a placeholder that NewCenter does not read).
Draws(sums, k) ==
  SeqsOf([c \in 1..k |-> IF sums[c].count # 0 THEN {[x |-> 0, y |-> 0, n |-> 1]}
                                              ELSE KMRandomCentroids], k)

\* The update sub-step, lines 65-79; rnd[c] is the random point drawn for c.
Update(ps, cs, k, rnd) ==
  [c \in 1..k |-> NewCenter(Sums(ps, k)[c],
                            IF c <= Len(cs) THEN cs[c] ELSE rnd[c], rnd[c])]

\* A queued state update: none, a freshly generated value (lines 26-30 and
\* 35-39), or the commit of a finished run (lines 86-87).  A fresh value is
\* random and is read by nobody before the render that applies it, so the
\* model draws it in that render (KMRender); val is then empty.
None == [kind |-> "none", val |-> <<>>]
Fresh == [kind |-> "fresh", val |-> <<>>]
Commit(v) == [kind |-> "commit", val |-> v]

\* step(), lines 50-89, from the closure state (ps, cs, it) with config.clusters
\* = k, followed by what it schedules: another frame, or the commit of the
\* final points and centroids.  qData and qCents are the setData and
\* setCentroids already queued by the effects that ran before.
Step(ps, cs, it, k, qData, qCents) ==
  LET ps1 == Assign(ps, cs) IN
  \E rnd \in Draws(Sums(ps1, k), k) :
    LET cs1 == Update(ps1, cs, k, rnd)
    IN /\ points' = ps1
       /\ centers' = cs1
       /\ cost' = CostFrom(ps1, cs, 1)
       /\ iter' = it + 1
       /\ runClusters' = k
       /\ IF it + 1 < KMIterations
          THEN /\ raf' = TRUE
               /\ pendData' = qData
               /\ pendCentroids' = qCents
          ELSE /\ raf' = FALSE
               /\ pendData' = Commit(ps1)
               /\ pendCentroids' = Commit(cs1)

\* The animation effect, lines 43-93, run with the data d and the centroids c
\* of the render it belongs to: the previous effect's cleanup cancels the
\* pending frame, then the effect returns early or runs the first step at once.
AnimationEffect(d, c, k, qData, qCents) ==
  IF Len(d) = 0 \/ Len(c) = 0
  THEN /\ raf' = FALSE
       /\ pendData' = qData
       /\ pendCentroids' = qCents
       /\ UNCHANGED <<points, centers, iter, runClusters, cost>>
  ELSE Step(d, c, 0, k, qData, qCents)

\* The state after the first render and its effects: no data and no centroids
\* yet, both generated and queued, the animation effect returned early.
KMInit ==
  /\ config = [points |-> KMMaxPoints, clusters |-> 1]
  /\ data = <<>>
  /\ centroids = <<>>
  /\ pendData = Fresh
  /\ pendCentroids = Fresh
  /\ points = <<>>
  /\ centers = <<>>
  /\ iter = 0
  /\ runClusters = 1
  /\ raf = FALSE
  /\ cost = Infinity

\* handleSliderChange("points", value), lines 142-145, and the render it
\* causes: the data effect (lines 25-31) queues fresh data, the animation
\* effect (version changed) restarts on the data of this render.
KMChangePoints ==
  \E value \in 1..KMMaxPoints :
    /\ pendData = None /\ pendCentroids = None
    /\ value # config.points
    /\ config' = [config EXCEPT !.points = value]
    /\ UNCHANGED <<data, centroids>>
    /\ AnimationEffect(data, centroids, config.clusters, Fresh, None)

\* handleSliderChange("clusters", value), lines 142-145, and the render it
\* causes: the centroid effect (lines 34-40) queues fresh centroids, the
\* animation effect restarts on the centroids of this render, with the new
\* config.clusters in its closure.
KMChangeClusters ==
  \E value \in 1..KMMaxClusters :
    /\ pendData = None /\ pendCentroids = None
    /\ value # config.clusters
    /\ config' = [config EXCEPT !.clusters = value]
    /\ UNCHANGED <<data, centroids>>
    /\ AnimationEffect(data, centroids, value, None, Fresh)

\* The values a queued update q of the state cur can have at the render.
Applied(q, cur, fresh) ==
  IF q.kind = "none" THEN {cur} ELSE IF q.kind = "commit" THEN {q.val} ELSE fresh

\* The render that applies the queued setData / setCentroids; data or centroids
\* changed, so the animation effect is cleaned up and run again.
KMRender ==
  /\ pendData # None \/ pendCentroids # None
  /\ data' \in Applied(pendData, data, [1..config.points -> KMRandomPoints])
  /\ centroids' \in Applied(pendCentroids, centroids,
                            [1..config.clusters -> KMRandomCentroids])
  /\ UNCHANGED config
  /\ AnimationEffect(data', centroids', config.clusters, None, None)

\* The animation frame: the step requested by line 84 runs.
KMFrame ==
  /\ raf
  /\ pendData = None /\ pendCentroids = None
  /\ UNCHANGED <<config, data, centroids>>
  /\ Step(points, centers, iter, runClusters, None, None)

(***************************************************************************)
(*                               DBSCAN                                    *)
(*                  src/unnamed/part_002, lines 303-441                    *)
(*                                                                         *)
(* The model is of dbscan(points, eps, minPts), lines 394-441, one loop    *)
(* iteration per action.  A render of the page runs it on the cluster      *)
(* points plus freshly drawn noise points; the model keeps the point set   *)
(* it drew at the start and re-runs dbscan on it for each epsilon, so that *)
(* the runs of one point set can be compared.  Points are numbered from 1. *)
(***************************************************************************)

\* TOTAL_POINTS (200 in the source).
DBTotalPoints == 5

\* The positions a point can have, and the values of the sliders.
DBPositions == {<<0, 0>>, <<1, 0>>, <<3, 0>>, <<4, 1>>}
DBEpsilons == {2, 3}
DBMinPoints == {2, 3}

\* point.cluster before the point is visited, and of a noise point.
Unvisited == -2
Noise == -1

VARIABLES
  dbPoints,      \* points: a sequence of [x, y, cluster]
  epsilon,       \* eps
  minPoints,     \* minPts
  clusterIndex,  \* clusterIndex
  dbI,           \* i of the main loop, lines 429-438
  neighbors,     \* neighbors of expandCluster: the expansion frontier
  dbJ,           \* i of the loop of expandCluster, lines 411-424 (from 1)
  dbPc,          \* "visit": in the main loop; "expand": in expandCluster; "done"
  noiseRuns      \* epsilon -> the noise count of the finished run with it, or -1

dbVars == <<dbPoints, epsilon, minPoints, clusterIndex, dbI, neighbors, dbJ, dbPc,
            noiseRuns>>

\* distance <= eps, lines 403-404: Math.sqrt(d2) <= eps iff d2 <= eps * eps.
Within(p, q, eps) ==
  (p.x - q.x) * (p.x - q.x) + (p.y - q.y) * (p.y - q.y) <= eps * eps

\* getNeighbors, lines 397-407: the other points within eps, in index order.
RECURSIVE NeighborsFrom(_, _, _, _)
NeighborsFrom(pts, pointIndex, eps, i) ==
  IF i > Len(pts) THEN <<>>
  ELSE IF i # pointIndex /\ Within(pts[pointIndex], pts[i], eps)
       THEN <<i>> \o NeighborsFrom(pts, pointIndex, eps, i + 1)
       ELSE NeighborsFrom(pts, pointIndex, eps, i + 1)

getNeighbors(pts, pointIndex, eps) == NeighborsFrom(pts, pointIndex, eps, 1)

\* neighbors.includes(nn), line 418.
Includes(seq, e) == \E k \in 1..Len(seq) : seq[k] = e

\* The loop of lines 417-419: each nn not yet in neighbors is pushed.
RECURSIVE PushNew(_, _, _)
PushNew(nbs, nns, k) ==
  IF k > Len(nns) THEN nbs
  ELSE PushNew(IF Includes(nbs, nns[k]) THEN nbs ELSE Append(nbs, nns[k]), nns, k + 1)

Labelled(pts, i, c) == [pts EXCEPT ![i].cluster = c]

\* Every frontier point is given the cluster, labelled or not (a mutant of
\* ExpandLabel).
ExpandLabelAll(pts, neighborIndex, cluster) == Labelled(pts, neighborIndex, cluster)

\* The labelling of one frontier point, lines 413-414 and 421-422: a noise or
\* an unvisited point is given the cluster, any other point is left alone.
ExpandLabel(pts, neighborIndex, cluster) ==
  IF pts[neighborIndex].cluster = Noise \/ pts[neighborIndex].cluster = Unvisited
  THEN Labelled(pts, neighborIndex, cluster)
  ELSE pts

\* The frontier after one frontier point is processed, lines 413-420: only in
\* the branch of a point that was noise are its neighbours looked at.
ExpandFrontier(pts, nbs, neighborIndex, eps, minPts) ==
  IF pts[neighborIndex].cluster = Noise
     /\ Len(getNeighbors(pts, neighborIndex, eps)) >= minPts
  THEN PushNew(nbs, getNeighbors(pts, neighborIndex, eps), 1)
  ELSE nbs

\* A visited point with too few neighbours is left unvisited (a mutant of
\* VisitNoise).
VisitNoiseSkip(pts, i) == pts

\* Line 433.
VisitNoise(pts, i) == Labelled(pts, i, Noise)

\* points.filter((p) => p.cluster === -1).length, line 498.
RECURSIVE NoiseCountFrom(_, _)
NoiseCountFrom(pts, i) ==
  IF i > Len(pts) THEN 0
  ELSE (IF pts[i].cluster = Noise THEN 1 ELSE 0) + NoiseCountFrom(pts, i + 1)

NoiseCount(pts) == NoiseCountFrom(pts, 1)

\* The call dbscan(points, eps, minPts) up to the main loop: lines 395 and 427.
DBStart(pts, eps) ==
  /\ dbPoints' = [i \in 1..Len(pts) |-> [pts[i] EXCEPT !.cluster = Unvisited]]
  /\ epsilon' = eps
  /\ clusterIndex' = 0
  /\ dbI' = 1
  /\ neighbors' = <<>>
  /\ dbJ' = 1
  /\ dbPc' = "visit"

DBInit ==
  /\ dbPoints \in [1..DBTotalPoints ->
                     {[x |-> q[1], y |-> q[2], cluster |-> Unvisited] : q \in DBPositions}]
  /\ epsilon \in DBEpsilons
  /\ minPoints \in DBMinPoints
  /\ clusterIndex = 0
  /\ dbI = 1
  /\ neighbors = <<>>
  /\ dbJ = 1
  /\ dbPc = "visit"
  /\ noiseRuns = [e \in DBEpsilons |-> -1]

\* An iteration of the main loop on a point already labelled, line 430.
DBVisitSkip ==
  /\ dbPc = "visit"
  /\ dbI <= Len(dbPoints)
  /\ dbPoints[dbI].cluster # Unvisited
  /\ dbI' = dbI + 1
  /\ UNCHANGED <<dbPoints, epsilon, minPoints, clusterIndex, neighbors, dbJ, dbPc,
                 noiseRuns>>

\* An iteration of the main loop on an unvisited point with fewer than minPts
\* neighbours, lines 431-435.
DBVisitNoise ==
  /\ dbPc = "visit"
  /\ dbI <= Len(dbPoints)
  /\ dbPoints[dbI].cluster = Unvisited
  /\ Len(getNeighbors(dbPoints, dbI, epsilon)) < minPoints
  /\ dbPoints' = VisitNoise(dbPoints, dbI)
  /\ dbI' = dbI + 1
  /\ UNCHANGED <<epsilon, minPoints, clusterIndex, neighbors, dbJ, dbPc, noiseRuns>>

\* An iteration of the main loop on an unvisited point with at least minPts
\* neighbours, lines 431-437, up to line 410 of expandCluster: the point is the
\* seed of a new cluster.
DBVisitSeed ==
  /\ dbPc = "visit"
  /\ dbI <= Len(dbPoints)
  /\ dbPoints[dbI].cluster = Unvisited
  /\ Len(getNeighbors(dbPoints, dbI, epsilon)) >= minPoints
  /\ clusterIndex' = clusterIndex + 1
  /\ neighbors' = getNeighbors(dbPoints, dbI, epsilon)
  /\ dbPoints' = Labelled(dbPoints, dbI, clusterIndex + 1)
  /\ dbPc' = "expand"
  /\ UNCHANGED <<epsilon, minPoints, dbI, dbJ, noiseRuns>>

\* One iteration of the loop of expandCluster, lines 411-424.
DBExpand ==
  /\ dbPc = "expand"
  /\ dbJ <= Len(neighbors)
  /\ dbPoints' = ExpandLabel(dbPoints, neighbors[dbJ], clusterIndex)
  /\ neighbors' = ExpandFrontier(dbPoints, neighbors, neighbors[dbJ], epsilon, minPoints)
  /\ dbJ' = dbJ + 1
  /\ UNCHANGED <<epsilon, minPoints, clusterIndex, dbI, dbPc, noiseRuns>>

\* expandCluster returns: the main loop goes on with the next point.
DBExpandEnd ==
  /\ dbPc = "expand"
  /\ dbJ > Len(neighbors)
  /\ dbPc' = "visit"
  /\ dbI' = dbI + 1
  /\ dbJ' = 1
  /\ neighbors' = <<>>
  /\ UNCHANGED <<dbPoints, epsilon, minPoints, clusterIndex, noiseRuns>>

\* The main loop ends and dbscan returns, line 440; the noise count of the run
\* is what line 498 displays.
DBReturn ==
  /\ dbPc = "visit"
  /\ dbI > Len(dbPoints)
  /\ dbPc' = "done"
  /\ noiseRuns' = [noiseRuns EXCEPT ![epsilon] = NoiseCount(dbPoints)]
  /\ UNCHANGED <<dbPoints, epsilon, minPoints, clusterIndex, dbI, neighbors, dbJ>>

\* The epsilon slider is moved and dbscan runs again on the point set.
DBRun ==
  /\ dbPc = "done"
  /\ \E eps \in DBEpsilons \ {epsilon} : DBStart(dbPoints, eps)
  /\ UNCHANGED <<minPoints, noiseRuns>>

\* The page not open: no point set, no run.
DBIdle ==
  /\ dbPoints = <<>>
  /\ epsilon = 2
  /\ minPoints = 2
  /\ clusterIndex = 0
  /\ dbI = 1
  /\ neighbors = <<>>
  /\ dbJ = 1
  /\ dbPc = "idle"
  /\ noiseRuns = [e \in DBEpsilons |-> -1]

(***************************************************************************)
(*                  DECISION TREE AND RANDOM FOREST                        *)
(*      src/unnamed/part_001 (single tree), lines 23-163 and 290-318       *)
(*      src/unnamed/part_000 (forest), lines 254-478                       *)
(*                                                                         *)
(* A tree is the set of its nodes.  A node is a record: path, the way from *)
(* the root (0 = left, 1 = right), stands for the left/right pointers (the *)
(* children of the node at path p are the nodes at p \o <<0>> and          *)
(* p \o <<1>>); feature, threshold, impurity, value are the fields of the  *)
(* source's Node, Null where the source leaves null.  Three more fields    *)
(* record the call that made the node: data and depth, the arguments of    *)
(* buildTree, and features, the feature list findBestSplit was given.      *)
(* threshold holds twice the source's threshold, so that the midpoint of   *)
(* two integers is an integer.                                             *)
(***************************************************************************)

\* The dataset has at most DTMaxData records on the single-tree page and at
\* most RFMaxData on the forest page (150 in the source).
DTMaxData == 3
RFMaxData == 2

\* The values of sepalLength and sepalWidth and the species in the dataset,
\* and the values of the controls.  (With two values per feature no node
\* below depth 2 can be split, so a maxDepth above 2 acts as 2 does.)
DTDepths == {1, 2}
DTValues == {0, 1}
DTSpecies == {"setosa", "virginica"}
DTMinSamples == {2, 3}
DTCriteria == {"gini", "Gini", "Entropy"}
RFCriteria == {"gini", "entropy"}
RFTreeCounts == {1, 2}
RFSubsampleRatios == {80, 100}
RFFeatureRatios == {80, 100}

labelMap == [setosa |-> 0, versicolor |-> 1, virginica |-> 2]

\* null in a Node field, and the NaN that Math.round(0 / 0) is.
Null == -1
NaN == -2

VARIABLES
  page,         \* "tree": DecisionTreePage is open; "forest": the forest page
  irisDataset,  \* the useState irisDataset: a sequence of records
  params,       \* the useState params
  tree,         \* the tree renderDecisionTree of the single-tree page built last
  forest,       \* the useState forest: a sequence of trees
  canvases,     \* the tree drawn last on each canvas of the forest page
  selectedIndex,   \* the useState selectedIndex (an index from 0)
  prediction,      \* the useState prediction, Null before the first Predict
  individualVotes  \* the useState individualVotes

dtVars ==
  <<page, irisDataset, params, tree, forest, canvases, selectedIndex, prediction,
    individualVotes>>

\* What the Predict button and the sample index input hold.
voteVars == <<selectedIndex, prediction, individualVotes>>

DTRecords == [sepalLength : DTValues, sepalWidth : DTValues, species : DTSpecies]

\* data.map((p) => labelMap[p.species])
Labels(d) == [i \in 1..Len(d) |-> labelMap[d[i].species]]

\* counts[lbl] of calculateGini, calculateEntropy and the forest's leaves.
Count(labels, lbl) == Cardinality({i \in 1..Len(labels) : labels[i] = lbl})

RECURSIVE Gcd(_, _)
Gcd(a, b) == IF b = 0 THEN a ELSE Gcd(b, a % b)

\* The fraction num / den (den > 0) in lowest terms.
Frac(num, den) ==
  LET g == Gcd(IF num < 0 THEN -num ELSE num, den)
  IN [num |-> num \div g, den |-> den \div g]

RECURSIVE Pow(_, _)
Pow(b, e) == IF e = 0 THEN 1 ELSE b * Pow(b, e - 1)

\* calculateGini, part_001 lines 49-60: 1 - sum of (count / n)^2, as a fraction
\* (1 when labels is empty: the loop subtracts nothing).
calculateGini(labels) ==
  LET n == Len(labels)
      sq == Count(labels, 0) * Count(labels, 0) + Count(labels, 1) * Count(labels, 1)
            + Count(labels, 2) * Count(labels, 2)
  IN IF n = 0 THEN Frac(1, 1) ELSE Frac(n * n - sq, n * n)

\* calculateEntropy, part_001 lines 62-73: - sum of p * log2(p).  With n
\* labels, n * entropy = log2(n^n / product of count^count); the model holds
\* the fraction under the logarithm, 2^(n * entropy), which is 1 exactly when
\* the entropy is 0 and orders as the entropy does for a fixed n.
calculateEntropy(labels) ==
  LET n == Len(labels)
  IN Frac(Pow(n, n),
          Pow(Count(labels, 0), Count(labels, 0)) * Pow(Count(labels, 1), Count(labels, 1))
            * Pow(Count(labels, 2), Count(labels, 2)))

\* impurityFn(labels), for impurityFn one of "gini", "entropy".
Impurity(impurityFn, labels) ==
  IF impurityFn = "gini" THEN calculateGini(labels) ELSE calculateEntropy(labels)

\* gain = currentImpurity - weightedImp, part_001 lines 101-105, from the
\* sizes n, nl, nr of the labels and of their left and right parts and from
\* their impurities cur, l, r.  Gini: the fraction itself.  Entropy: the
\* fraction 2^(n * gain), from the fractions 2^(n * entropy) of the three.
GainOf(impurityFn, n, nl, nr, cur, l, r) ==
  IF impurityFn = "gini"
  THEN Frac(cur.num * (n * l.den * r.den)
              - (nl * l.num * r.den + nr * r.num * l.den) * cur.den,
            cur.den * (n * l.den * r.den))
  ELSE Frac(cur.num * l.den * r.den, cur.den * l.num * r.num)

Gain(impurityFn, labels, left, right) ==
  GainOf(impurityFn, Len(labels), Len(left), Len(right), Impurity(impurityFn, labels),
         Impurity(impurityFn, left), Impurity(impurityFn, right))

\* The gain 0 that bestGain starts with, line 82.
ZeroGain(impurityFn) == IF impurityFn = "gini" THEN Frac(0, 1) ELSE Frac(1, 1)

\* Ties keep the last candidate (a mutant of GainGreater).
GainGreaterOrEqual(gain, bestGain) == gain.num * bestGain.den >= bestGain.num * gain.den

\* gain > bestGain, line 107.
GainGreater(gain, bestGain) == gain.num * bestGain.den > bestGain.num * gain.den

\* feature === 0 ? p.sepalLength : p.sepalWidth
FeatureOf(p, feature) == IF feature = 0 THEN p.sepalLength ELSE p.sepalWidth

\* [...new Set(values)].sort((a, b) => a - b), line 90.
RECURSIVE Sorted(_)
Sorted(S) ==
  IF S = {} THEN <<>>
  ELSE LET m == CHOOSE x \in S : \A y \in S : x <= y IN <<m>> \o Sorted(S \ {m})

\* The two data.filter of lines 94-95 (and of 156-157); threshold is doubled.
LeftOf(d, feature, threshold) ==
  LET Test(p) == 2 * FeatureOf(p, feature) <= threshold IN SelectSeq(d, Test)

RightOf(d, feature, threshold) ==
  LET Test(p) == 2 * FeatureOf(p, feature) > threshold IN SelectSeq(d, Test)

\* The midpoints (doubled) of consecutive values, lines 91-92.
Midpoints(values) == [i \in 1..(Len(values) - 1) |-> values[i] + values[i + 1]]

\* The thresholds tried for one feature, lines 90-93, in the order tried.
Thresholds(d, feature) ==
  Midpoints(Sorted({FeatureOf(d[i], feature) : i \in 1..Len(d)}))

\* The candidates of one feature for its thresholds.
WithFeature(feature, thresholds) ==
  [i \in 1..Len(thresholds) |-> [feature |-> feature, threshold |-> thresholds[i]]]

\* The candidates of the two nested loops of lines 89-92, in the order tried.
RECURSIVE Candidates(_, _, _)
Candidates(d, features, k) ==
  IF k > Len(features) THEN <<>>
  ELSE WithFeature(features[k], Thresholds(d, features[k]))
       \o Candidates(d, features, k + 1)

\* The gain of a candidate, lines 94-105.
CandidateGain(d, impurityFn, c) ==
  Gain(impurityFn, Labels(d), Labels(LeftOf(d, c.feature, c.threshold)),
       Labels(RightOf(d, c.feature, c.threshold)))

\* Whether line 96 lets the candidate through.
Splits(d, c) ==
  Len(LeftOf(d, c.feature, c.threshold)) # 0 /\ Len(RightOf(d, c.feature, c.threshold)) # 0

\* Lines 96 and 107-111 for candidate c of the given gain; best is [bestGain,
\* bestFeature, bestThreshold].
Better(splits, gain, c, best) ==
  IF splits /\ GainGreater(gain, best.bestGain)
  THEN [bestGain |-> gain, bestFeature |-> c.feature, bestThreshold |-> c.threshold]
  ELSE best

\* The loops of lines 89-114 from candidate k on.
RECURSIVE BestFrom(_, _, _, _, _)
BestFrom(d, impurityFn, cands, k, best) ==
  IF k > Len(cands) THEN best
  ELSE BestFrom(d, impurityFn, cands, k + 1,
                Better(Splits(d, cands[k]), CandidateGain(d, impurityFn, cands[k]),
                       cands[k], best))

\* Lines 76 and 116-122 for the outcome best of the loops; found = FALSE is
\* the null result.
SplitFrom(d, impurityFn, minSamplesSplit, best) ==
  IF Len(d) < minSamplesSplit \/ best.bestGain = ZeroGain(impurityFn)
  THEN [found |-> FALSE, feature |-> Null, threshold |-> Null,
        impurity |-> Impurity(impurityFn, Labels(d))]
  ELSE [found |-> TRUE, feature |-> best.bestFeature, threshold |-> best.bestThreshold,
        impurity |-> Impurity(impurityFn, Labels(d))]

\* findBestSplit, part_001 lines 75-123 and part_000 lines 359-407, for the
\* impurityFn its first lines select and the feature list ([0, 1] in the single
\* tree, availableFeatures in the forest).
findBestSplit(d, impurityFn, minSamplesSplit, features) ==
  SplitFrom(d, impurityFn, minSamplesSplit,
            BestFrom(d, impurityFn, Candidates(d, features, 1), 1,
                     [bestGain |-> ZeroGain(impurityFn), bestFeature |-> Null,
                      bestThreshold |-> Null]))

\* The first test of buildTree with > for >= (a mutant of StopsAt).
StopsAfter(d, depth, maxDepth, minSamplesSplit) ==
  depth > maxDepth \/ Len(d) < minSamplesSplit

\* depth >= maxDepth || data.length < minSamplesSplit, part_001 line 135 and
\* part_000 line 419.
StopsAt(d, depth, maxDepth, minSamplesSplit) ==
  depth >= maxDepth \/ Len(d) < minSamplesSplit

RECURSIVE SumSeq(_, _)
SumSeq(seq, i) == IF i > Len(seq) THEN 0 ELSE seq[i] + SumSeq(seq, i + 1)

\* Math.round(sum / labels.length), part_001 lines 136-138 and 145-147: the
\* mean of the class indices rounded half up; NaN for no label (0 / 0).
RoundedMean(labels) ==
  IF Len(labels) = 0 THEN NaN
  ELSE (2 * SumSeq(labels, 1) + Len(labels)) \div (2 * Len(labels))

\* The loop over Object.entries(counts), part_000 lines 426-433, from class lbl
\* on: the keys come in ascending order, a class that does not occur has no
\* entry, a count must exceed maxCount to replace maxLabel.
RECURSIVE MostCommonFrom(_, _, _, _)
MostCommonFrom(labels, lbl, maxCount, maxLabel) ==
  IF lbl > 2 THEN maxLabel
  ELSE IF Count(labels, lbl) > maxCount
       THEN MostCommonFrom(labels, lbl + 1, Count(labels, lbl), lbl)
       ELSE MostCommonFrom(labels, lbl + 1, maxCount, maxLabel)

MostCommon(labels) == MostCommonFrom(labels, 0, 0, 0)

\* node.impurity = 0, part_001 lines 139 and 148.
ZeroImpurity == [num |-> 0, den |-> 1]

\* A leaf of the single tree, part_001 lines 136-140 and 145-149.
Leaf(d, depth, path) ==
  [path |-> path, depth |-> depth, data |-> d, features |-> <<0, 1>>,
   feature |-> Null, threshold |-> Null, impurity |-> ZeroImpurity,
   value |-> RoundedMean(Labels(d))]

\* A leaf of a forest tree, part_000 lines 420-438 and 446-464.
LeafRF(d, depth, path, impurityFn, features) ==
  [path |-> path, depth |-> depth, data |-> d, features |-> features,
   feature |-> Null, threshold |-> Null,
   impurity |-> Impurity(impurityFn, Labels(d)), value |-> MostCommon(Labels(d))]

\* An internal node, part_001 lines 152-160 and part_000 lines 467-475.
Internal(d, depth, path, features, split) ==
  [path |-> path, depth |-> depth, data |-> d, features |-> features,
   feature |-> split.feature, threshold |-> split.threshold,
   impurity |-> split.impurity, value |-> Null]

\* criterion === "gini" ? calculateGini : calculateEntropy, part_001 line 78.
ImpurityFn(criterion) == IF criterion = "gini" THEN "gini" ELSE "entropy"

\* criterion.toLowerCase()
ToLowerCase(str) ==
  IF str = "Gini" THEN "gini" ELSE IF str = "Entropy" THEN "entropy" ELSE str

\* criterion.toLowerCase() === "gini" ? ..., part_000 lines 362, 436, 462.
ImpurityFnRF(criterion) == IF ToLowerCase(criterion) = "gini" THEN "gini" ELSE "entropy"

RECURSIVE buildTree(_, _, _, _, _, _)
RECURSIVE Grow(_, _, _, _, _, _, _)

\* buildTree of the single tree, part_001 lines 125-163: the nodes of the tree
\* built for data d at the given depth, the root at path.
buildTree(d, depth, path, maxDepth, minSamplesSplit, criterion) ==
  IF StopsAt(d, depth, maxDepth, minSamplesSplit) THEN {Leaf(d, depth, path)}
  ELSE Grow(d, depth, path, maxDepth, minSamplesSplit, criterion,
            findBestSplit(d, ImpurityFn(criterion), minSamplesSplit, <<0, 1>>))

\* Lines 143-162 of buildTree for the split found.
Grow(d, depth, path, maxDepth, minSamplesSplit, criterion, split) ==
  IF ~split.found THEN {Leaf(d, depth, path)}
  ELSE {Internal(d, depth, path, <<0, 1>>, split)}
       \cup buildTree(LeftOf(d, split.feature, split.threshold), depth + 1,
                      path \o <<0>>, maxDepth, minSamplesSplit, criterion)
       \cup buildTree(RightOf(d, split.feature, split.threshold), depth + 1,
                      path \o <<1>>, maxDepth, minSamplesSplit, criterion)

\* selectRandomFeatureSubset, part_000 lines 352-357: the feature lists the
\* shuffle and the slice can give.  ratio is in percent.
selectRandomFeatureSubset(ratio) ==
  {SubSeq(shuffled, 1, IF (2 * ratio) \div 100 > 1 THEN (2 * ratio) \div 100 ELSE 1) :
     shuffled \in {<<0, 1>>, <<1, 0>>}}

RECURSIVE buildTreeRF(_, _, _, _, _, _, _)
RECURSIVE GrowRF(_, _, _, _, _, _, _, _, _)

\* buildTree of the forest, part_000 lines 409-478: the trees it can return,
\* one for each outcome of the random feature subsets drawn at its nodes.
buildTreeRF(d, depth, path, maxDepth, minSamplesSplit, criterion, featureSubsetRatio) ==
  IF StopsAt(d, depth, maxDepth, minSamplesSplit)
  THEN {{LeafRF(d, depth, path, ImpurityFnRF(criterion), <<>>)}}
  ELSE UNION {GrowRF(d, depth, path, maxDepth, minSamplesSplit, criterion,
                     featureSubsetRatio, availableFeatures,
                     findBestSplit(d, ImpurityFnRF(criterion), minSamplesSplit,
                                   availableFeatures)) :
              availableFeatures \in selectRandomFeatureSubset(featureSubsetRatio)}

\* Lines 445-477 of buildTree for the features drawn and the split found.
GrowRF(d, depth, path, maxDepth, minSamplesSplit, criterion, featureSubsetRatio, availableFeatures, split) ==
  IF ~split.found
  THEN {{LeafRF(d, depth, path, ImpurityFnRF(criterion), availableFeatures)}}
  ELSE {{Internal(d, depth, path, availableFeatures, split)} \cup l \cup r :
          l \in buildTreeRF(LeftOf(d, split.feature, split.threshold), depth + 1,
                            path \o <<0>>, maxDepth, minSamplesSplit, criterion,
                            featureSubsetRatio),
          r \in buildTreeRF(RightOf(d, split.feature, split.threshold), depth + 1,
                            path \o <<1>>, maxDepth, minSamplesSplit, criterion,
                            featureSubsetRatio)}

\* The records of d at the indices in S, in the order of d.
RECURSIVE Pick(_, _, _)
Pick(d, S, i) ==
  IF i > Len(d) THEN <<>>
  ELSE (IF i \in S THEN <<d[i]>> ELSE <<>>) \o Pick(d, S, i + 1)

\* Sampling with replacement: every sequence of the sample size over the
\* records of d (a mutant of subsampleData).
subsampleWithReplacement(d, ratio) ==
  {[k \in 1..((Len(d) * ratio) \div 100) |-> d[pick[k]]] :
     pick \in [1..((Len(d) * ratio) \div 100) -> 1..Len(d)]}

\* subsampleData, part_000 lines 346-350: the samples the shuffle and the slice
\* can give.  buildTree only filters and counts its data, so the order of the
\* sample is immaterial; the model keeps the order of the dataset.
subsampleData(d, ratio) ==
  {Pick(d, S, 1) :
     S \in {T \in SUBSET (1..Len(d)) : Cardinality(T) = (Len(d) * ratio) \div 100}}

\* The datasets irisDataset.json can hold: 2 to max records.  One sequence
\* stands for all its reorderings (the one sorted by RecordKey), since
\* buildTree filters and counts and never looks at the position of a record.
RecordKey(p) == 6 * p.sepalLength + 3 * p.sepalWidth + labelMap[p.species]

Datasets(max) ==
  UNION {{d \in [1..n -> DTRecords] :
            \A i \in 1..(n - 1) : RecordKey(d[i]) <= RecordKey(d[i + 1])} :
         n \in 2..max}

\* The maxDepth of useState and of Reset: 3 in the source, the deepest here.
DefaultMaxDepth == CHOOSE n \in DTDepths : \A m \in DTDepths : m <= n

\* useState(...) of part_001 lines 25-30.
DTParams == [maxDepth |-> DefaultMaxDepth, minSamplesSplit |-> 2, criterion |-> "gini"]

\* The numberOfTrees of useState and of Reset: 3 in the source, the most here.
DefaultTrees == CHOOSE n \in RFTreeCounts : \A m \in RFTreeCounts : m <= n

\* useState(...) of part_000 lines 256-264.
RFParams ==
  [maxDepth |-> DefaultMaxDepth, minSamplesSplit |-> 2, criterion |-> "gini",
   numberOfTrees |-> DefaultTrees, subsampleRatio |-> 80, featureSubsetRatio |-> 80]

\* renderDecisionTree of the single-tree page, part_001 lines 165-168, called
\* by the effect of lines 223-229 whenever params or irisDataset is set.
renderDecisionTree(d, p) ==
  buildTree(d, 0, <<>>, p.maxDepth, p.minSamplesSplit, p.criterion)

\* The trees one iteration of the loop of part_000 lines 296-299 can push.
\* (renderDecisionTree of the forest page, lines 480-486, draws on each canvas
\* one more tree of this set, built on a subsample of its own.)
SampledTrees(d, p) ==
  UNION {buildTreeRF(sample, 0, <<>>, p.maxDepth, p.minSamplesSplit, p.criterion,
                     p.featureSubsetRatio) :
         sample \in subsampleData(d, p.subsampleRatio)}

\* The effect of part_000 lines 293-301, run whenever params or irisDataset is
\* set: the values setForest can be given, or the forest left as it is.
ForestEffect(d, p, old) ==
  IF Len(d) = 0 THEN {old} ELSE [1..p.numberOfTrees -> SampledTrees(d, p)]

\* The render effect of part_000 lines 545-555, run whenever params or
\* irisDataset is set: renderDecisionTree (lines 480-486) draws on each canvas
\* a tree it builds on a subsample of its own.
CanvasEffect(d, p, old) ==
  IF Len(d) = 0 THEN {old} ELSE [1..p.numberOfTrees -> SampledTrees(d, p)]

\* The render effect in the render an action of the forest page causes.  The
\* drawings feed nothing back into the state of the page: SpecCanvas follows
\* them, conjoining RenderEffect to every action of the page, and the other
\* specifications of the page leave canvases as it is.
RenderEffect == canvases' \in CanvasEffect(irisDataset', params', canvases)

\* useState of part_000 lines 266-269, and canvases nothing was drawn on.
RFNoVote ==
  /\ canvases = <<>>
  /\ selectedIndex = 0
  /\ prediction = Null
  /\ individualVotes = <<>>

\* The single-tree page after its first render: the effect has drawn the tree
\* of the empty dataset.
DTOpen ==
  /\ page = "tree"
  /\ irisDataset = <<>>
  /\ params = DTParams
  /\ tree = renderDecisionTree(<<>>, DTParams)
  /\ forest = <<>>
  /\ RFNoVote

\* The forest page after its first render.
RFOpen ==
  /\ page = "forest"
  /\ irisDataset = <<>>
  /\ params = RFParams
  /\ tree = {}
  /\ forest = <<>>
  /\ RFNoVote

\* Neither page is open.
DTIdle ==
  /\ page = "none"
  /\ irisDataset = <<>>
  /\ params = DTParams
  /\ tree = {}
  /\ forest = <<>>
  /\ RFNoVote

\* setParams of the single-tree page followed by the render effect.
DTSetParams(p) ==
  /\ page = "tree"
  /\ params' = p
  /\ tree' = renderDecisionTree(irisDataset, p)
  /\ UNCHANGED <<page, irisDataset, forest, canvases, voteVars>>

\* The fetch of part_001 lines 42-47 resolves.
DTLoaded ==
  /\ page = "tree"
  /\ irisDataset = <<>>
  /\ \E d \in Datasets(DTMaxData) :
       /\ irisDataset' = d
       /\ tree' = renderDecisionTree(d, params)
  /\ UNCHANGED <<page, params, forest, canvases, voteVars>>

\* The sliders and the select of part_001 lines 250-300.
\* (onChange fires when the value changes; no option of the select is "gini".)
DTSetMaxDepth ==
  \E v \in DTDepths \ {params.maxDepth} :
    DTSetParams([params EXCEPT !.maxDepth = v])

DTSetMinSamplesSplit ==
  \E v \in DTMinSamples \ {params.minSamplesSplit} :
    DTSetParams([params EXCEPT !.minSamplesSplit = v])

DTSetCriterion ==
  \E v \in DTCriteria \ {"gini", params.criterion} :
    DTSetParams([params EXCEPT !.criterion = v])

\* The Reset button of part_001 lines 304-318.
DTReset ==
  DTSetParams([params EXCEPT !.maxDepth = DefaultMaxDepth, !.minSamplesSplit = 2,
                             !.criterion = "Gini"])

\* setParams of the forest page followed by the forest effect.
RFSetParams(p) ==
  /\ page = "forest"
  /\ params' = p
  /\ forest' \in ForestEffect(irisDataset, p, forest)
  /\ UNCHANGED <<page, irisDataset, tree, voteVars>>

\* The fetch of part_000 lines 286-291 resolves.
RFLoaded ==
  /\ page = "forest"
  /\ irisDataset = <<>>
  /\ \E d \in Datasets(RFMaxData) :
       /\ irisDataset' = d
       /\ forest' \in ForestEffect(d, params, forest)
  /\ UNCHANGED <<page, params, tree, voteVars>>

\* The sliders and the select of part_000 lines 630-740.
\* (onChange fires when the value changes.)
RFSetNumberOfTrees ==
  /\ page = "forest"
  /\ \E v \in RFTreeCounts \ {params.numberOfTrees} :
       RFSetParams([params EXCEPT !.numberOfTrees = v])

RFSetSubsampleRatio ==
  /\ page = "forest"
  /\ \E v \in RFSubsampleRatios \ {params.subsampleRatio} :
       RFSetParams([params EXCEPT !.subsampleRatio = v])

RFSetFeatureSubsetRatio ==
  /\ page = "forest"
  /\ \E v \in RFFeatureRatios \ {params.featureSubsetRatio} :
       RFSetParams([params EXCEPT !.featureSubsetRatio = v])

RFSetMaxDepth ==
  /\ page = "forest"
  /\ \E v \in DTDepths \ {params.maxDepth} :
       RFSetParams([params EXCEPT !.maxDepth = v])

RFSetMinSamplesSplit ==
  /\ page = "forest"
  /\ \E v \in DTMinSamples \ {params.minSamplesSplit} :
       RFSetParams([params EXCEPT !.minSamplesSplit = v])

RFSetCriterion ==
  /\ page = "forest"
  /\ \E v \in RFCriteria \ {params.criterion} :
       RFSetParams([params EXCEPT !.criterion = v])

\* The Reset button of part_000 lines 745-762.
RFReset == RFSetParams(RFParams)

\* predict, part_000 lines 316-323: from the node at path, down to a node
\* that lacks a child.  (threshold is doubled.)
RECURSIVE predictFrom(_, _, _)
predictFrom(t, path, point) ==
  IF (\E l \in t : l.path = path \o <<0>>) /\ (\E r \in t : r.path = path \o <<1>>)
  THEN predictFrom(t, path \o <<IF 2 * FeatureOf(point, (CHOOSE nd \in t : nd.path = path).feature)
                                     <= (CHOOSE nd \in t : nd.path = path).threshold
                                  THEN 0 ELSE 1>>, point)
  ELSE (CHOOSE nd \in t : nd.path = path).value

predict(t, point) == predictFrom(t, <<>>, point)

\* Math.max(...votes) of line 329, votes being a function on 0..2.
MaxVotes(votes) == CHOOSE m \in {votes[c] : c \in 0..2} : \A c \in 0..2 : votes[c] <= m

\* The last index that holds m (a mutant of indexOf).
lastIndexOf(votes, m) ==
  CHOOSE c \in 0..2 : votes[c] = m /\ \A e \in (c + 1)..2 : votes[e] # m

\* votes.indexOf(m) of line 329: the first index that holds m.
indexOf(votes, m) ==
  CHOOSE c \in 0..2 : votes[c] = m /\ \A e \in 0..(c - 1) : votes[e] # m

\* forest.map(tree => predict(tree, point)), line 326.
Individual(f, point) == [i \in 1..Len(f) |-> predict(f[i], point)]

\* votes after individual.forEach(v => votes[v]++), lines 327-328.
VotesOf(individual) == [c \in 0..2 |-> Count(individual, c)]

\* majorityVote, part_000 lines 325-331.
majorityVote(f, point) ==
  [final |-> indexOf(VotesOf(Individual(f, point)), MaxVotes(VotesOf(Individual(f, point)))),
   votes |-> Individual(f, point)]

\* The sample index input of part_000 lines 590-598, within its min and max.
RFSetSelectedIndex ==
  /\ page = "forest"
  /\ Len(irisDataset) > 0
  /\ \E v \in (0..(Len(irisDataset) - 1)) \ {selectedIndex} : selectedIndex' = v
  /\ UNCHANGED <<page, irisDataset, params, tree, forest, canvases, prediction,
                 individualVotes>>

\* The Predict button of part_000 lines 601-611.
RFPredict ==
  /\ page = "forest"
  /\ Len(irisDataset) > 0
  /\ prediction' = majorityVote(forest, irisDataset[selectedIndex + 1]).final
  /\ individualVotes' = majorityVote(forest, irisDataset[selectedIndex + 1]).votes
  /\ UNCHANGED <<page, irisDataset, params, tree, forest, canvases, selectedIndex>>

\* The numbers of trees the Predict button is tried with (3 is the
\* numberOfTrees of useState, part_000 line 260).
VoteTreeCounts == {2, 3}

\* The forest page once the dataset has loaded under the parameters of
\* useState, for each number of trees of VoteTreeCounts; the drawings are not
\* followed.
RFVoteOpen ==
  /\ page = "forest"
  /\ irisDataset \in Datasets(RFMaxData)
  /\ params \in {[RFParams EXCEPT !.numberOfTrees = n] : n \in VoteTreeCounts}
  /\ tree = {}
  /\ forest \in ForestEffect(irisDataset, params, <<>>)
  /\ canvases = <<>>
  /\ selectedIndex = 0
  /\ prediction = Null
  /\ individualVotes = <<>>

(***************************************************************************)
(*                        SUPPORT VECTOR MACHINE                           *)
(*   src/MLPROJECT_T/ML PROJECT/components/algorithms/perceptron.tsx,      *)
(*                            lines 441-710                                *)
(*                                                                         *)
(* Numbers are exact: c is the fraction <<numerator, denominator>>, noise  *)
(* and Math.random() are in hundredths, gamma is in tenths, and a kernel   *)
(* value is an integer number of units of 1 / SVMScale (Math.exp is taken  *)
(* to five decimals).  What renderSVM draws is a function of params and    *)
(* points, so the model keeps no drawing: alphas, predictRaw and           *)
(* isSupportVector are operators on the state.                             *)
(***************************************************************************)

\* numPoints (15 in the source).
SVMNumPoints == 2

\* The unit of a kernel value.
SVMScale == 100000

\* The values x and y can take (Math.random() * 4 - 2), the values
\* Math.random() takes in the label draw, and the values of the sliders.
SVMCoords == {0, 1}
SVMRandoms == {0, 50}
SVMCs == {<<1, 2>>, <<1, 1>>, <<2, 1>>}
SVMKernels == {0, 1}
SVMGammas == {5, 10}
SVMNoises == {0, 10}

VARIABLES
  svmParams,      \* the useState params of SVMPage: [c, kernel, gamma, noise]
  svmPoints,      \* the useState points of useSVMData
  initialPoints,  \* the ref initialPoints
  prevNoise,      \* the ref prevNoise
  svmEffect       \* what the data effect did in the last render: "generate",
                  \* "restore", or "none" when it did not run

svmVars == <<svmParams, svmPoints, initialPoints, prevNoise, svmEffect>>

\* The label of lines 453-460 for the Math.random() value r.
SVMLabel(x, y, r, noise, kernel) ==
  IF kernel = 0
  THEN (IF 2 * y > x THEN (IF r > noise THEN 1 ELSE 0) ELSE (IF r > noise THEN 0 ELSE 1))
  ELSE (IF 100 * (x * x + y * y) < 144
        THEN (IF r > noise THEN 1 ELSE 0) ELSE (IF r > noise THEN 0 ELSE 1))

\* generateData, lines 446-466: the data sets it can return.
generateData(noise, kernel) ==
  [1..SVMNumPoints ->
     {[x |-> x, y |-> y, label |-> SVMLabel(x, y, r, noise, kernel)] :
        x \in SVMCoords, y \in SVMCoords, r \in SVMRandoms}]

\* useState of lines 636-641.
SVMParams == [c |-> <<1, 1>>, kernel |-> 1, gamma |-> 5, noise |-> 10]

\* SVMPage after its first render and the two effects of useSVMData: the
\* first generates the points, the second, with prevNoise equal to noise,
\* sets them again from the ref.
SVMInit ==
  /\ svmParams = SVMParams
  /\ svmPoints \in generateData(SVMParams.noise, SVMParams.kernel)
  /\ initialPoints = svmPoints
  /\ prevNoise = SVMParams.noise
  /\ svmEffect = "restore"

\* SVMPage is not open.
SVMIdle ==
  /\ svmParams = SVMParams
  /\ svmPoints = <<>>
  /\ initialPoints = <<>>
  /\ prevNoise = SVMParams.noise
  /\ svmEffect = "none"

\* The effect of lines 477-486, run in the render where params are p.
SVMDataEffect(p) ==
  IF prevNoise # p.noise
  THEN /\ prevNoise' = p.noise
       /\ \E newPoints \in generateData(p.noise, p.kernel) :
            /\ initialPoints' = newPoints
            /\ svmPoints' = newPoints
       /\ svmEffect' = "generate"
  ELSE /\ svmPoints' = initialPoints
       /\ svmEffect' = "restore"
       /\ UNCHANGED <<initialPoints, prevNoise>>

\* The sliders of lines 645-650.  noise and kernel are the dependencies of the
\* data effect; c and gamma are not.
SVMSetNoise ==
  /\ svmPoints # <<>>
  /\ \E v \in SVMNoises \ {svmParams.noise} :
       /\ svmParams' = [svmParams EXCEPT !.noise = v]
       /\ SVMDataEffect(svmParams')

SVMSetKernel ==
  /\ svmPoints # <<>>
  /\ \E v \in SVMKernels \ {svmParams.kernel} :
       /\ svmParams' = [svmParams EXCEPT !.kernel = v]
       /\ SVMDataEffect(svmParams')

SVMSetC ==
  /\ svmPoints # <<>>
  /\ \E v \in SVMCs \ {svmParams.c} : svmParams' = [svmParams EXCEPT !.c = v]
  /\ svmEffect' = "none"
  /\ UNCHANGED <<svmPoints, initialPoints, prevNoise>>

SVMSetGamma ==
  /\ svmPoints # <<>>
  /\ \E v \in SVMGammas \ {svmParams.gamma} :
       svmParams' = [svmParams EXCEPT !.gamma = v]
  /\ svmEffect' = "none"
  /\ UNCHANGED <<svmPoints, initialPoints, prevNoise>>

\* Math.exp(-t / 10) to five decimals, for t = 1, 2, ...
ExpTable ==
  <<90484, 81873, 74082, 67032, 60653, 54881, 49659, 44933, 40657, 36788,
    33287, 30119, 27253, 24660, 22313, 20190, 18268, 16530, 14957, 13534,
    12246, 11080, 10026, 9072, 8208, 7427, 6721, 6081, 5502, 4979,
    4505, 4076, 3688, 3337, 3020, 2732, 2472, 2237, 2024, 1832,
    1657, 1500, 1357, 1228, 1111, 1005, 910, 823, 745, 674,
    610, 552, 499, 452, 409, 370, 335, 303, 274, 248,
    224, 203, 184, 166, 150, 136, 123, 111, 101, 91,
    83, 75, 68, 61, 55, 50, 45, 41, 37, 34,
    30, 27, 25, 22, 20, 18, 17, 15, 14, 12,
    11, 10, 9, 8, 7, 7, 6, 6, 5, 5,
    4, 4, 3, 3, 3, 2, 2, 2, 2, 2,
    2, 1, 1, 1, 1>>

\* Math.exp(-t / 10) in units of 1 / SVMScale.
Exp(t) == IF t = 0 THEN SVMScale ELSE IF t <= Len(ExpTable) THEN ExpTable[t] ELSE 0

\* kernelFunction, lines 500-504.
kernelFunction(x1, y1, x2, y2, prm) ==
  IF prm.kernel = 0
  THEN (x1 * x2 + y1 * y2) * SVMScale
  ELSE Exp(prm.gamma * ((x1 - x2) * (x1 - x2) + (y1 - y2) * (y1 - y2)))

Abs(v) == IF v < 0 THEN 0 - v ELSE v

\* predictRawBase, lines 507-511: the reduce over points[i..].
RECURSIVE predictRawBase(_, _, _, _, _)
predictRawBase(x, y, pts, prm, i) ==
  IF i > Len(pts) THEN 0
  ELSE (IF pts[i].label = 1 THEN 1 ELSE 0 - 1)
         * kernelFunction(x, y, pts[i].x, pts[i].y, prm)
       + predictRawBase(x, y, pts, prm, i + 1)

\* The coefficient when |raw| = 1 / c counts as below the cutoff (a mutant of
\* alpha).
alphaInclusive(p, pts, prm) ==
  IF Abs(predictRawBase(p.x, p.y, pts, prm, 1)) * prm.c[1] <= prm.c[2] * SVMScale
  THEN (IF p.label = 1 THEN prm.c ELSE <<0 - prm.c[1], prm.c[2]>>)
  ELSE <<0, 1>>

\* One entry of alphas, lines 513-517; marginCutoff is 1 / c.
alpha(p, pts, prm) ==
  IF Abs(predictRawBase(p.x, p.y, pts, prm, 1)) * prm.c[1] < prm.c[2] * SVMScale
  THEN (IF p.label = 1 THEN prm.c ELSE <<0 - prm.c[1], prm.c[2]>>)
  ELSE <<0, 1>>

alphas(pts, prm) == [i \in 1..Len(pts) |-> alpha(pts[i], pts, prm)]

\* predictRaw, lines 519-520, times the denominator of c (the alphas are all
\* over it): the reduce over points[i..].
RECURSIVE predictRaw(_, _, _, _, _)
predictRaw(x, y, pts, prm, i) ==
  IF i > Len(pts) THEN 0
  ELSE alpha(pts[i], pts, prm)[1] * kernelFunction(x, y, pts[i].x, pts[i].y, prm)
       + predictRaw(x, y, pts, prm, i + 1)

\* isSupportVector of line 607: Math.abs(predictRaw(point.x, point.y)) <= 1.05.
isSupportVector(p, pts, prm) ==
  Abs(predictRaw(p.x, p.y, pts, prm, 1)) * 100 <= 105 * prm.c[2] * SVMScale

(***************************************************************************)
(*                         SELF-ORGANIZING MAP                             *)
(*                  src/unnamed/part_003, lines 6-248                      *)
(*                                                                         *)
(* Weights, data coordinates, learningRate and sigma are integers in units *)
(* of 1 / SOMScale; Math.exp is Exp, its argument taken to one decimal.    *)
(* VisualizationCanvas calls renderSOM(params, currentFrame) after every   *)
(* change of the page's state; somGrid is the grid that call built,        *)
(* trained and drew.  The body of SOMPage runs on every render, and with   *)
(* it the Array.from of lines 53-60: the renderSOM of a render closes over *)
(* the fixedData that render made.                                         *)
(***************************************************************************)

\* The unit of a weight.
SOMScale == 1000

\* The positions of the sliders of the model: gridSize 2..SOMMaxGrid (5..20
\* in the source) and iterations 1..SOMMaxIterations (10..200 in the source).
SOMMaxGrid == 3
SOMMaxIterations == 2

\* The values of the other two sliders, and the points of fixedData that
\* Math.floor(Math.random() * fixedData.length) can select (lines 53-60: on a
\* ring of radius 0.6 to 0.8).
SOMLearningRates == {100, 500}
SOMSigmas == {500, 1000}
SOMData == {[x |-> 700, y |-> 0], [x |-> 0, y |-> 0 - 600]}

\* The datasets Array.from(..., () => ...Math.random()...) of lines 53-60 can
\* make: two points each here, 200 in the source.
SOMDatasets == {SOMData, {[x |-> 0 - 800, y |-> 0], [x |-> 0, y |-> 700]}}

VARIABLES
  somParams,     \* the useState params: [gridSize, learningRate, iterations, sigma]
  currentFrame,  \* the useState currentFrame
  isAnimating,   \* the useState isAnimating
  somGrid,       \* the grid of the last renderSOM: a sequence of [x, y, i, j]
  fixedData      \* the const fixedData of the last render of SOMPage

somVars == <<somParams, currentFrame, isAnimating, somGrid, fixedData>>

\* The neuron pushed at lines 89-94.
SOMNode(i, j, gridSize) ==
  [x |-> (i * SOMScale) \div (gridSize - 1) - SOMScale \div 2,
   y |-> (j * SOMScale) \div (gridSize - 1) - SOMScale \div 2,
   i |-> i,
   j |-> j]

\* The loops with j outside and i inside (a mutant of GridFrom).
RECURSIVE GridFromColumns(_, _, _)
GridFromColumns(i, j, gridSize) ==
  IF j >= gridSize THEN <<>>
  ELSE IF i >= gridSize THEN GridFromColumns(0, j + 1, gridSize)
  ELSE <<SOMNode(i, j, gridSize)>> \o GridFromColumns(i + 1, j, gridSize)

\* The two loops of lines 86-96 from the position (i, j) on: what they push.
RECURSIVE GridFrom(_, _, _)
GridFrom(i, j, gridSize) ==
  IF i >= gridSize THEN <<>>
  ELSE IF j >= gridSize THEN GridFrom(i + 1, 0, gridSize)
  ELSE <<SOMNode(i, j, gridSize)>> \o GridFrom(i, j + 1, gridSize)

\* Math.hypot(point.x - node.x, point.y - node.y), squared; line 110.
SOMDist2(point, node) ==
  (point.x - node.x) * (point.x - node.x) + (point.y - node.y) * (point.y - node.y)

\* The loop of lines 106-115 from index i on, bmuIndex being best (indices
\* from 1; the first node is nearer than Infinity).
RECURSIVE findBMU(_, _, _, _)
findBMU(grid, point, i, best) ==
  IF i > Len(grid) THEN best
  ELSE findBMU(grid, point, i + 1,
               IF SOMDist2(point, grid[i]) < SOMDist2(point, grid[best]) THEN i ELSE best)

\* v * Math.exp(-iter / iterations): lrDecay and sigmaDecay, lines 119-120.
SOMDecay(v, it, iterations) == (v * Exp((10 * it) \div iterations)) \div SVMScale

\* influence, lines 124-125, in units of 1 / SVMScale.
influence(node, bmu, sigmaDecay) ==
  Exp((10 * ((node.i - bmu.i) * (node.i - bmu.i) + (node.j - bmu.j) * (node.j - bmu.j))
          * SOMScale * SOMScale)
        \div (2 * sigmaDecay * sigmaDecay))

\* Lines 127-128: the node after the update.
moveNode(node, point, lrDecay, infl) ==
  [node EXCEPT
     !.x = node.x + (((lrDecay * infl) \div SVMScale) * (point.x - node.x)) \div SOMScale,
     !.y = node.y + (((lrDecay * infl) \div SVMScale) * (point.y - node.y)) \div SOMScale]

\* The loop of lines 122-129.
updateGrid(grid, bmu, point, lrDecay, sigmaDecay) ==
  [k \in 1..Len(grid) |->
     moveNode(grid[k], point, lrDecay, influence(grid[k], bmu, sigmaDecay))]

\* One iteration of the training loop, lines 102-130, for the drawn point.
trainStep(grid, point, it, prm) ==
  updateGrid(grid, grid[findBMU(grid, point, 1, 1)], point,
             SOMDecay(prm.learningRate, it, prm.iterations),
             SOMDecay(prm.sigma, it, prm.iterations))

\* The training loop from iteration it on: the grids it can end with.
RECURSIVE train(_, _, _, _, _)
train(grid, it, totalIterations, prm, dataset) ==
  IF it >= totalIterations THEN {grid}
  ELSE UNION {train(trainStep(grid, point, it, prm), it + 1, totalIterations, prm, dataset) :
                point \in dataset}

\* renderSOM, lines 62-197: the grids it can draw for params prm and frame,
\* dataset being the fixedData of its closure.
renderSOM(prm, frame, dataset) ==
  train(GridFrom(0, 0, prm.gridSize), 0,
        IF prm.iterations < frame THEN prm.iterations ELSE frame, prm, dataset)

\* A render of SOMPage with params prm and currentFrame frame: the body makes
\* fixedData, VisualizationCanvas calls the renderSOM of that render.
SOMRender(prm, frame) ==
  /\ fixedData' \in SOMDatasets
  /\ somGrid' \in renderSOM(prm, frame, fixedData')

\* useState of lines 7-12, on the sliders of the model.
SOMParams ==
  [gridSize |-> 2, learningRate |-> 100, iterations |-> SOMMaxIterations, sigma |-> 1000]

\* SOMPage after its first render.
SOMInit ==
  /\ somParams = SOMParams
  /\ currentFrame = 0
  /\ isAnimating = FALSE
  /\ fixedData \in SOMDatasets
  /\ somGrid \in renderSOM(SOMParams, 0, fixedData)

\* SOMPage is not open.
SOMIdle ==
  /\ somParams = SOMParams
  /\ currentFrame = 0
  /\ isAnimating = FALSE
  /\ somGrid = <<>>
  /\ fixedData = {}

\* The sliders of lines 17-50; the page renders again.
SOMSetGridSize ==
  /\ somGrid # <<>>
  /\ \E v \in (2..SOMMaxGrid) \ {somParams.gridSize} :
       somParams' = [somParams EXCEPT !.gridSize = v]
  /\ SOMRender(somParams', currentFrame)
  /\ UNCHANGED <<currentFrame, isAnimating>>

SOMSetLearningRate ==
  /\ somGrid # <<>>
  /\ \E v \in SOMLearningRates \ {somParams.learningRate} :
       somParams' = [somParams EXCEPT !.learningRate = v]
  /\ SOMRender(somParams', currentFrame)
  /\ UNCHANGED <<currentFrame, isAnimating>>

SOMSetIterations ==
  /\ somGrid # <<>>
  /\ \E v \in (1..SOMMaxIterations) \ {somParams.iterations} :
       somParams' = [somParams EXCEPT !.iterations = v]
  /\ SOMRender(somParams', currentFrame)
  /\ UNCHANGED <<currentFrame, isAnimating>>

SOMSetSigma ==
  /\ somGrid # <<>>
  /\ \E v \in SOMSigmas \ {somParams.sigma} :
       somParams' = [somParams EXCEPT !.sigma = v]
  /\ SOMRender(somParams', currentFrame)
  /\ UNCHANGED <<currentFrame, isAnimating>>

\* The frame requested by the effect of lines 200-236: animate, lines 205-225.
SOMAnimate ==
  /\ somGrid # <<>>
  /\ isAnimating
  /\ currentFrame < somParams.iterations
  /\ IF currentFrame + 1 <= somParams.iterations
     THEN currentFrame' = currentFrame + 1 /\ UNCHANGED isAnimating
     ELSE currentFrame' = somParams.iterations /\ isAnimating' = FALSE
  /\ SOMRender(somParams, currentFrame')
  /\ UNCHANGED somParams

\* handleAnimateToggle, lines 239-248.
SOMAnimateToggle ==
  /\ somGrid # <<>>
  /\ IF currentFrame >= somParams.iterations
     THEN currentFrame' = 0 /\ isAnimating' = TRUE
     ELSE isAnimating' = ~isAnimating /\ UNCHANGED currentFrame
  /\ SOMRender(somParams, currentFrame')
  /\ UNCHANGED somParams

(***************************************************************************)
(*                      MULTI-LAYER PERCEPTRON                             *)
(*   src/MLPROJECT_T/ML PROJECT/components/algorithms/perceptron.tsx,      *)
(*                            lines 31-244                                 *)
(*                                                                         *)
(* Weights, biases, activations, deltas and learningRate are integers in   *)
(* units of 1 / MLPScale.  A network is the sequence of its layers, a      *)
(* layer the record [weights, biases] of the source.  The sequences that   *)
(* .map makes are written [j \in 1..n |-> e] \o <<>>: the concatenation    *)
(* has TLC compute the sequence once, not at every reading of an entry.    *)
(***************************************************************************)

\* The unit of a weight.
MLPScale == 10000

\* hiddenSize, line 43.
hiddenSize == 3

\* The positions of the sliders of the model: hiddenLayers
\* 1..MLPMaxHiddenLayers and outputNodes 1..MLPMaxOutputNodes (1..5 in the
\* source), iterations 1..MLPMaxIterations (1..20 in the source).
MLPMaxHiddenLayers == 2
MLPMaxOutputNodes == 2
MLPMaxIterations == 2

\* The number of training steps the model follows one network through.
MLPMaxUpdates == 2

\* Math.random: the streams of values (Math.random() * 2 - 1) * 0.5 that one
\* createNetwork() call can draw from.  Stream s is MLPRandoms read round and
\* round from position s; MLPDraw(s, k) is its draw number k (from 0).  Two
\* starting positions are followed, one that starts below zero and one above.
MLPRandoms == <<0 - 4000, 1000, 3000, 0 - 2000>>
MLPStreams == {0, 2}

MLPDraw(s, k) == MLPRandoms[((s + k) % Len(MLPRandoms)) + 1]

\* The values of the learningRate slider and of the activation select.
MLPLearningRates == {1000, 5000}
MLPActivations == {"sigmoid", "relu", "identity"}

\* input, line 44, and an entry of target, line 45.
mlpInput == <<5000, 0 - 3000>>
mlpTarget == MLPScale

VARIABLES
  mlpConfig,    \* the useState config
  networkRef,   \* networkRef.current
  layers,       \* the variable layers of the closure of the training effect
  mlpIter,      \* the variable iter of that closure
  animRef,      \* animRef.current: the id of the frame requested last, 0 at first
  pending,      \* the animation-frame queue: the requests for step not yet run
  drawn,        \* what the last draw(layers, acts) call was given
  created,      \* the network the last createNetwork() returned
  mlpUpdates,   \* the number of training steps applied to it since
  cancelled     \* TRUE when the last action cancelled a request of the queue

mlpVars ==
  <<mlpConfig, networkRef, layers, mlpIter, animRef, pending, drawn, created, mlpUpdates,
    cancelled>>

\* The layer of n nodes over prev inputs that lines 50-55 and 58-63 make when
\* k draws of stream s have been made: the weights row by row, then the
\* biases.
MLPLayer(n, prev, s, k) ==
  [weights |-> [j \in 1..n |-> [i \in 1..prev |-> MLPDraw(s, k + (j - 1) * prev + (i - 1))]],
   biases |-> [j \in 1..n |-> MLPDraw(s, k + n * prev + (j - 1))]]

\* The loop of lines 49-57 from hidden layer i on, and the output layer.
RECURSIVE NetworkFrom(_, _, _, _, _)
NetworkFrom(i, prev, cfg, s, k) ==
  IF i >= cfg.hiddenLayers
  THEN <<MLPLayer(cfg.outputNodes, prev, s, k)>>
  ELSE <<MLPLayer(hiddenSize, prev, s, k)>>
         \o NetworkFrom(i + 1, hiddenSize, cfg, s, k + hiddenSize * prev + hiddenSize)

\* createNetwork, lines 47-66: the networks it can return (inputSize is 2).
createNetwork(cfg) == {NetworkFrom(0, Len(mlpInput), cfg, s, 0) : s \in MLPStreams}

\* activations[a].func, lines 9-28; Math.exp to one decimal of its argument.
RECURSIVE func(_, _)
func(a, x) ==
  CASE a = "sigmoid" ->
         (IF x >= 0
          THEN (MLPScale * SVMScale) \div (SVMScale + Exp(x \div (MLPScale \div 10)))
          ELSE MLPScale - func(a, 0 - x))
    [] a = "relu" -> (IF x > 0 THEN x ELSE 0)
    [] a = "identity" -> x

\* activations[a].derivative.
derivative(a, y) ==
  CASE a = "sigmoid" -> (y * (MLPScale - y)) \div MLPScale
    [] a = "relu" -> (IF y > 0 THEN MLPScale ELSE 0)
    [] a = "identity" -> MLPScale

\* row.reduce((sum, w, i) => sum + w * curr[i], ...) of line 74, from index i
\* on, without the bias.
RECURSIVE Dot(_, _, _)
Dot(row, curr, i) ==
  IF i > Len(row) THEN 0 ELSE row[i] * curr[i] + Dot(row, curr, i + 1)

\* Lines 73-76: the activations of one layer for the input curr.
LayerOut(layer, curr, a) ==
  [j \in 1..Len(layer.biases) |->
     func(a, layer.biases[j] + Dot(layer.weights[j], curr, 1) \div MLPScale)] \o <<>>

\* forwardPass, lines 68-80: acts[1] is the input, acts[l + 1] what layer l
\* puts out.
RECURSIVE ForwardFrom(_, _, _, _)
ForwardCons(net, l, out, a) == <<out>> \o ForwardFrom(net, l + 1, out, a)

ForwardFrom(net, l, curr, a) ==
  IF l > Len(net) THEN <<>> ELSE ForwardCons(net, l, LayerOut(net[l], curr, a), a)

forwardPass(net, a) == <<mlpInput>> \o ForwardFrom(net, 1, mlpInput, a)

\* nextWeights.reduce((sum, row, k) => sum + row[j] * nextDeltas[k], 0), line
\* 212, from row k on.
RECURSIVE BackSum(_, _, _, _)
BackSum(nextWeights, nextDeltas, j, k) ==
  IF k > Len(nextWeights) THEN 0
  ELSE nextWeights[k][j] * nextDeltas[k] + BackSum(nextWeights, nextDeltas, j, k + 1)

\* deltas[l] of lines 198-215: of the output layer, and of a hidden layer
\* from the deltas of the layer after it.
RECURSIVE DeltaOf(_, _, _, _)
HiddenDelta(net, acts, l, a, nextDeltas) ==
  [j \in 1..Len(acts[l + 1]) |->
     ((BackSum(net[l + 1].weights, nextDeltas, j, 1) \div MLPScale)
        * derivative(a, acts[l + 1][j])) \div MLPScale] \o <<>>

DeltaOf(net, acts, l, a) ==
  IF l = Len(net)
  THEN [i \in 1..Len(acts[l + 1]) |->
          ((acts[l + 1][i] - mlpTarget) * derivative(a, acts[l + 1][i])) \div MLPScale]
         \o <<>>
  ELSE HiddenDelta(net, acts, l, a, DeltaOf(net, acts, l + 1, a))

\* The update with the sign of the gradient kept (a mutant of UpdateLayer).
UpdateLayerAscent(layer, delta, actsIn, lr) ==
  [weights |->
     [j \in 1..Len(layer.weights) |->
        [i \in 1..Len(layer.weights[j]) |->
           layer.weights[j][i]
             + (((lr * delta[j]) \div MLPScale) * actsIn[i]) \div MLPScale]],
   biases |->
     [j \in 1..Len(layer.biases) |-> layer.biases[j] + (lr * delta[j]) \div MLPScale]]

\* Lines 218-223: one layer after the update.
UpdateLayer(layer, delta, actsIn, lr) ==
  [weights |->
     [j \in 1..Len(layer.weights) |->
        [i \in 1..Len(layer.weights[j]) |->
           layer.weights[j][i]
             - (((lr * delta[j]) \div MLPScale) * actsIn[i]) \div MLPScale]],
   biases |->
     [j \in 1..Len(layer.biases) |-> layer.biases[j] - (lr * delta[j]) \div MLPScale]]

UpdateAll(net, acts, cfg) ==
  [l \in 1..Len(net) |->
     UpdateLayer(net[l], DeltaOf(net, acts, l, cfg.activation), acts[l], cfg.learningRate)]

\* The forward pass, the deltas and the update of step, lines 194-223: the
\* layers after one training step on net.
trainStepMLP(net, cfg) == UpdateAll(net, forwardPass(net, cfg.activation), cfg)

\* useState of lines 34-40, on the sliders of the model.
MLPConfig ==
  [hiddenLayers |-> MLPMaxHiddenLayers, iterations |-> MLPMaxIterations,
   activation |-> "sigmoid", learningRate |-> 1000, outputNodes |-> 1]

\* A request of the queue is [id, live, layers, iter, config]: the id
\* requestAnimationFrame returned, and the variables of the closure of the
\* step function it will call; live is TRUE while that closure is the one of
\* the last run of the training effect.

\* cancelAnimationFrame that cancels nothing (a mutant of
\* cancelAnimationFrame).
cancelNothing(id, queue) == queue

\* cancelAnimationFrame(id): the queue without the request id.
cancelAnimationFrame(id, queue) == {f \in queue : f.id # id}

\* The requests of the queue once a later run of the training effect has
\* started: their closures are no longer the last one.
Superseded(queue) == {[f EXCEPT !.live = FALSE] : f \in queue}

\* The id requestAnimationFrame returns: one that no request of the queue has
\* and that animRef.current does not hold (the least such).
FreshId(queue, ref) ==
  CHOOSE n \in 1..(Cardinality(queue) + 2) :
    /\ n # ref /\ \A f \in queue : f.id # n
    /\ \A m \in 1..(n - 1) : m = ref \/ \E f \in queue : f.id = m

\* The condition of line 231 with <= for < (a mutant of Schedules).
SchedulesInclusive(it, iterations) == it <= iterations

\* The condition of line 231, iter being the value ++iter gave.
Schedules(it, iterations) == it < iterations

\* step, lines 194-233, run in the closure where layers is net, iter is it and
\* the config is cfg, the queue being queue: it trains, stores the network in
\* the ref, draws the new layers with the activations of the forward pass it
\* made before the update, and requests the next frame.
StepRun(net, it, cfg, live, queue) ==
  /\ networkRef' = trainStepMLP(net, cfg)
  /\ drawn' = [layers |-> networkRef', acts |-> forwardPass(net, cfg.activation)]
  /\ IF Schedules(it + 1, cfg.iterations)
     THEN /\ animRef' = FreshId(queue, animRef)
          /\ pending' = queue \cup {[id |-> animRef', live |-> live, layers |-> networkRef',
                                     iter |-> it + 1, config |-> cfg]}
     ELSE /\ pending' = queue
          /\ UNCHANGED animRef

\* The training effect, lines 187-244, run in a render where the config is
\* cfg and networkRef.current is net: the cleanup of the run before and line
\* 188 cancel the frame of animRef.current, the closure takes the network of
\* the ref and iter = 0, and step() runs once at the end.
TrainingEffect(cfg, net) ==
  /\ StepRun(net, 0, cfg, TRUE, Superseded(cancelAnimationFrame(animRef, pending)))
  /\ layers' = networkRef'
  /\ mlpIter' = 1
  /\ cancelled' = (cancelAnimationFrame(animRef, pending) # pending)

\* The page after its first render: the creation effect, lines 181-185, then
\* the training effect.
MLPInit ==
  /\ mlpConfig = MLPConfig
  /\ created \in createNetwork(MLPConfig)
  /\ layers = trainStepMLP(created, MLPConfig)
  /\ networkRef = layers
  /\ drawn = [layers |-> layers, acts |-> forwardPass(created, MLPConfig.activation)]
  /\ mlpIter = 1
  /\ animRef = (IF Schedules(1, MLPConfig.iterations) THEN 1 ELSE 0)
  /\ pending = (IF Schedules(1, MLPConfig.iterations)
                THEN {[id |-> 1, live |-> TRUE, layers |-> layers, iter |-> 1,
                       config |-> MLPConfig]}
                ELSE {})
  /\ mlpUpdates = 1
  /\ cancelled = FALSE

\* The page is not open.
MLPIdle ==
  /\ mlpConfig = MLPConfig
  /\ created = <<>>
  /\ layers = <<>>
  /\ networkRef = <<>>
  /\ drawn = <<>>
  /\ mlpIter = 0
  /\ animRef = 0
  /\ pending = {}
  /\ mlpUpdates = 0
  /\ cancelled = FALSE

\* A frame of the queue: its step runs, in its closure.
MLPFrame ==
  /\ mlpUpdates < MLPMaxUpdates
  /\ \E f \in pending :
       /\ StepRun(f.layers, f.iter, f.config, f.live, pending \ {f})
       /\ IF f.live
          THEN layers' = networkRef' /\ mlpIter' = f.iter + 1
          ELSE UNCHANGED <<layers, mlpIter>>
  /\ mlpUpdates' = mlpUpdates + 1
  /\ UNCHANGED <<mlpConfig, created, cancelled>>

\* A render after hiddenLayers or outputNodes changed: both effects run, the
\* creation effect first (it cancels the frame of animRef.current as well).
RecreateAndTrain(cfg) ==
  /\ mlpConfig' = cfg
  /\ created' \in createNetwork(cfg)
  /\ TrainingEffect(cfg, created')
  /\ mlpUpdates' = 1

\* A render after activation, iterations or learningRate changed: only the
\* training effect runs.
Retrain(cfg) ==
  /\ mlpUpdates < MLPMaxUpdates
  /\ mlpConfig' = cfg
  /\ TrainingEffect(cfg, networkRef)
  /\ mlpUpdates' = mlpUpdates + 1
  /\ UNCHANGED created

\* step as a function of its inputs: the closures it is checked on hold a
\* network of the output layer alone (hiddenLayers = 0, below what the slider
\* allows), with one output node and every choice of its two weights and its
\* bias, or with the output nodes a createNetwork() call makes; every
\* activation and learning rate; no step has run yet and the first is
\* requested.
StepNetworks(cfg) ==
  createNetwork(cfg)
    \cup (IF cfg.outputNodes = 1
          THEN {<<[weights |-> <<w>>, biases |-> <<MLPRandoms[b]>>]>> :
                  w \in [1..Len(mlpInput) -> {MLPRandoms[k] : k \in 1..Len(MLPRandoms)}],
                  b \in 1..Len(MLPRandoms)}
          ELSE {})

StepOpen ==
  /\ mlpConfig \in [hiddenLayers : {0}, iterations : {MLPMaxIterations},
                     activation : MLPActivations, learningRate : MLPLearningRates,
                     outputNodes : 1..MLPMaxOutputNodes]
  /\ created \in StepNetworks(mlpConfig)
  /\ layers = created
  /\ networkRef = created
  /\ drawn = <<>>
  /\ mlpIter = 0
  /\ animRef = 1
  /\ pending = {[id |-> 1, live |-> TRUE, layers |-> created, iter |-> 0,
                  config |-> mlpConfig]}
  /\ mlpUpdates = 0
  /\ cancelled = FALSE

\* The sliders and the select of lines 258-325 (setConfig).
MLPSetHiddenLayers ==
  /\ created # <<>>
  /\ \E v \in (1..MLPMaxHiddenLayers) \ {mlpConfig.hiddenLayers} :
       RecreateAndTrain([mlpConfig EXCEPT !.hiddenLayers = v])

MLPSetOutputNodes ==
  /\ created # <<>>
  /\ \E v \in (1..MLPMaxOutputNodes) \ {mlpConfig.outputNodes} :
       RecreateAndTrain([mlpConfig EXCEPT !.outputNodes = v])

MLPSetIterations ==
  /\ created # <<>>
  /\ \E v \in (1..MLPMaxIterations) \ {mlpConfig.iterations} :
       Retrain([mlpConfig EXCEPT !.iterations = v])

MLPSetLearningRate ==
  /\ created # <<>>
  /\ \E v \in MLPLearningRates \ {mlpConfig.learningRate} :
       Retrain([mlpConfig EXCEPT !.learningRate = v])

MLPSetActivation ==
  /\ created # <<>>
  /\ \E v \in MLPActivations \ {mlpConfig.activation} :
       Retrain([mlpConfig EXCEPT !.activation = v])

(***************************************************************************)
(*                  LINEAR AND LOGISTIC REGRESSION                         *)
(*   src/unnamed/part_002, lines 12-150 (LinearRegressionPage) and         *)
(*   src/unnamed/part_000, lines 926-1135 (LogisticRegressionPage)         *)
(*                                                                         *)
(* The two pages have the same state, the same effects and the same        *)
(* button; they differ in the data they generate, in the error of a point  *)
(* and in the decisionBoundary slider.  w, b, the coordinates of the       *)
(* points, learningRate, noise and decisionBoundary are integers in units  *)
(* of 1 / MLPScale.  A render generates 100 points in the source and       *)
(* RegNumPoints here.  iterations and frame have the values of the source. *)
(***************************************************************************)

\* The 100 of Math.floor((frame / 100) * iterations), part_002 line 85 and
\* part_000 line 989.
FramesPerRun == 100

\* The iterations slider: min 10, max 200, step 10 (part_002 line 26).
IterationValues == {10 * k : k \in 1..20}

\* Values of the other sliders.
RegLearningRates == {1000, 5000}
RegNoises == {0, 2000}
RegBoundaries == {5000, 7000}

\* The Math.random() draws of one render, in the order of the calls (two for
\* each point).
RegStreams == {<<2500, 5000, 7500, 10000>>, <<4000, 0, 9000, 2500>>}

VARIABLES
  regPage,       \* "linear", "logistic", or "none": neither page is open
  regParams,     \* the useState params
  regAnimating,  \* the useState isAnimating
  regFrame,      \* the useState frame
  regShown,      \* the currentIteration of the last render ("Iterations: c/n")
  regFit         \* the points, w and b of the last render, <<>> where not followed

regVars == <<regPage, regParams, regAnimating, regFrame, regShown, regFit>>

\* Math.floor((frame / 100) * iterations).  The quotient and the product are
\* doubles: where frame * iterations / 100 is an integer q and frame / 100 is
\* not a double exactly (frame is no multiple of 25), the product may round
\* below q (0.29 * 100 is 28.999999999999996), and the floor is q - 1 or q.
FloorOfProduct(frame, iterations) ==
  IF (frame * iterations) % FramesPerRun = 0 /\ (4 * frame) % FramesPerRun # 0
  THEN {(frame * iterations) \div FramesPerRun - 1, (frame * iterations) \div FramesPerRun}
  ELSE {(frame * iterations) \div FramesPerRun}

\* Math.min(iterations, floored) without the + 1 (a mutant of currentIteration).
currentIterationFromZero(iterations, floored) ==
  IF iterations < floored THEN iterations ELSE floored

\* Math.min(iterations, Math.floor(...) + 1), part_002 lines 83-86 and
\* part_000 lines 987-990, floored being the value of Math.floor(...).
currentIteration(iterations, floored) ==
  IF iterations < floored + 1 THEN iterations ELSE floored + 1

\* The point pushed at part_002 lines 75-77 for the draws rx and rn.
linearPoint(rx, rn, noise) ==
  [x |-> 2 * rx - MLPScale,
   y |-> 2 * (2 * rx - MLPScale) + MLPScale + ((2 * rn - MLPScale) * noise) \div MLPScale]

\* Math.min(1, Math.max(0, p)), part_000 lines 977-979.
Clamp(p) == IF p < 0 THEN 0 ELSE IF p > MLPScale THEN MLPScale ELSE p

\* The point pushed at part_000 lines 975-980 for the draws rx and rn.
logisticPoint(rx, rn, noise) ==
  [x |-> 2 * rx - MLPScale,
   y |-> IF Clamp(func("sigmoid", 5 * (2 * rx - MLPScale))
                    + ((2 * rn - MLPScale) * noise) \div MLPScale) > MLPScale \div 2
         THEN MLPScale ELSE 0]

\* The loop of part_002 lines 73-78 and part_000 lines 973-981 for the draws s.
generatePoints(pg, s, noise) ==
  [k \in 1..(Len(s) \div 2) |->
     IF pg = "linear" THEN linearPoint(s[2 * k - 1], s[2 * k], noise)
     ELSE logisticPoint(s[2 * k - 1], s[2 * k], noise)] \o <<>>

\* error of part_002 lines 91-92 and dz of part_000 lines 995-997.
RegError(pg, w, b, pt) ==
  IF pg = "linear" THEN (w * pt.x) \div MLPScale + b - pt.y
  ELSE func("sigmoid", (w * pt.x) \div MLPScale + b) - pt.y

\* dw and db after the loop over the points, from index k on.
RECURSIVE SumDw(_, _, _, _, _)
SumDw(pg, pts, w, b, k) ==
  IF k > Len(pts) THEN 0
  ELSE (pts[k].x * RegError(pg, w, b, pts[k])) \div MLPScale + SumDw(pg, pts, w, b, k + 1)

RECURSIVE SumDb(_, _, _, _, _)
SumDb(pg, pts, w, b, k) ==
  IF k > Len(pts) THEN 0 ELSE RegError(pg, w, b, pts[k]) + SumDb(pg, pts, w, b, k + 1)

\* One pass of the loop of part_002 lines 88-101 and part_000 lines 992-1005.
gradientStep(pg, pts, lr, w, b) ==
  [w |-> w - (lr * (SumDw(pg, pts, w, b, 1) \div Len(pts))) \div MLPScale,
   b |-> b - (lr * (SumDb(pg, pts, w, b, 1) \div Len(pts))) \div MLPScale]

\* The loop from pass i on, up to the pass n - 1, as the set that holds the
\* pair (w, b) it ends with.  (The pair of a pass is bound by the set
\* constructor, which makes TLC compute it before the next pass begins.)
RECURSIVE passesFrom(_, _, _, _, _, _)
passesFrom(pg, pts, lr, wb, i, n) ==
  IF i >= n THEN {wb}
  ELSE UNION {passesFrom(pg, pts, lr, next, i + 1, n) :
                next \in {gradientStep(pg, pts, lr, wb.w, wb.b)}}

gradientDescent(pg, pts, lr, wb, i, n) ==
  CHOOSE last \in passesFrom(pg, pts, lr, wb, i, n) : TRUE

FitRecord(pts, wb) == [points |-> pts, w |-> wb.w, b |-> wb.b]

\* let w = 0, b = 0 and the loop of n passes over the points generated.
Fit(pg, pts, lr, n) ==
  FitRecord(pts, gradientDescent(pg, pts, lr, [w |-> 0, b |-> 0], 0, n))

\* The render effect of part_002 lines 32-38 and part_000 lines 1085-1091, run
\* when params or frame has changed: the currentIteration it draws.
RegRender(prm, frame) ==
  regShown' \in {currentIteration(prm.iterations, floored) :
                   floored \in FloorOfProduct(frame, prm.iterations)}

\* The points, w and b of that render, for the specification that follows them.
FitEffect ==
  \E s \in RegStreams :
    regFit' = Fit(regPage', generatePoints(regPage', s, regParams'.noise),
                  regParams'.learningRate, regShown')

\* useState of part_002 lines 13-17 and part_000 lines 928-933.
RegParams ==
  [learningRate |-> 1000, iterations |-> FramesPerRun, noise |-> 2000,
   decisionBoundary |-> 5000]

\* The values the sliders can give params.
RegParamValues ==
  [learningRate : RegLearningRates, iterations : IterationValues, noise : RegNoises,
   decisionBoundary : RegBoundaries]

\* A page after its first render.
RegOpen ==
  /\ regPage \in {"linear", "logistic"}
  /\ regParams = RegParams
  /\ regAnimating = FALSE
  /\ regFrame = 0
  /\ regShown = currentIteration(RegParams.iterations, 0)
  /\ regFit = <<>>

\* Neither page is open.
RegIdle ==
  /\ regPage = "none"
  /\ regParams = RegParams
  /\ regAnimating = FALSE
  /\ regFrame = 0
  /\ regShown = 0
  /\ regFit = <<>>

\* A page whose sliders were moved and whose Animate button was then pressed.
RegStarted ==
  /\ regPage \in {"linear", "logistic"}
  /\ regParams \in RegParamValues
  /\ regPage = "linear" => regParams.decisionBoundary = RegParams.decisionBoundary
  /\ regAnimating = TRUE
  /\ regFrame = 0
  /\ regShown = currentIteration(regParams.iterations, 0)

\* setParams of a slider (part_002 lines 193-198), followed by the render effect.
RegSetParams(p) ==
  /\ regPage # "none"
  /\ regParams' = p
  /\ RegRender(p, regFrame)
  /\ UNCHANGED <<regPage, regAnimating, regFrame>>

RegSetLearningRate ==
  \E v \in RegLearningRates \ {regParams.learningRate} :
    RegSetParams([regParams EXCEPT !.learningRate = v])

RegSetIterations ==
  \E v \in IterationValues \ {regParams.iterations} :
    RegSetParams([regParams EXCEPT !.iterations = v])

RegSetNoise ==
  \E v \in RegNoises \ {regParams.noise} :
    RegSetParams([regParams EXCEPT !.noise = v])

RegSetDecisionBoundary ==
  /\ regPage = "logistic"
  /\ \E v \in RegBoundaries \ {regParams.decisionBoundary} :
       RegSetParams([regParams EXCEPT !.decisionBoundary = v])

\* The Animate / Pause button, part_002 lines 165-170: setFrame(0) when the
\* animation starts; the render effect runs if that changed frame.
RegToggle ==
  /\ regPage # "none"
  /\ regAnimating' = ~regAnimating
  /\ IF ~regAnimating /\ regFrame # 0
     THEN regFrame' = 0 /\ RegRender(regParams, 0)
     ELSE UNCHANGED <<regFrame, regShown>>
  /\ UNCHANGED <<regPage, regParams>>

\* The frame the animation effect of part_002 lines 40-55 has requested: loop
\* adds 1 to frame; the effect of the next render, which runs before the
\* frame after, cancels the request loop made and makes its own if frame is
\* still below iterations.
RegLoop ==
  /\ regPage # "none"
  /\ regAnimating
  /\ regFrame < regParams.iterations
  /\ regFrame' = regFrame + 1
  /\ RegRender(regParams, regFrame')
  /\ UNCHANGED <<regPage, regParams, regAnimating>>

(***************************************************************************)
(*                           SPECIFICATIONS                                *)
(* One per page; the other pages are not open and their variables keep the *)
(* values of KMInit (a single state) and of the Idle states.  The forest   *)
(* page has three: SpecDT follows its trees (with the single-tree page),   *)
(* SpecCanvas its trees and its drawings, SpecVote its vote.  The          *)
(* regression pages have three: SpecReg follows the controls, SpecRun an   *)
(* animation nobody interrupts, SpecFit that animation and what it fits.   *)
(***************************************************************************)

vars == <<kmVars, dbVars, dtVars, svmVars, somVars, mlpVars, regVars>>

KMNext ==
  \/ KMChangePoints /\ UNCHANGED <<dbVars, dtVars, svmVars, somVars, mlpVars, regVars>>
  \/ KMChangeClusters /\ UNCHANGED <<dbVars, dtVars, svmVars, somVars, mlpVars, regVars>>
  \/ KMRender /\ UNCHANGED <<dbVars, dtVars, svmVars, somVars, mlpVars, regVars>>
  \/ KMFrame /\ UNCHANGED <<dbVars, dtVars, svmVars, somVars, mlpVars, regVars>>

InitKM ==
  KMInit /\ DBIdle /\ DTIdle /\ SVMIdle /\ SOMIdle /\ MLPIdle /\ RegIdle

SpecKM == InitKM /\ [][KMNext]_vars

DBNext ==
  \/ DBVisitSkip /\ UNCHANGED <<kmVars, dtVars, svmVars, somVars, mlpVars, regVars>>
  \/ DBVisitNoise /\ UNCHANGED <<kmVars, dtVars, svmVars, somVars, mlpVars, regVars>>
  \/ DBVisitSeed /\ UNCHANGED <<kmVars, dtVars, svmVars, somVars, mlpVars, regVars>>
  \/ DBExpand /\ UNCHANGED <<kmVars, dtVars, svmVars, somVars, mlpVars, regVars>>
  \/ DBExpandEnd /\ UNCHANGED <<kmVars, dtVars, svmVars, somVars, mlpVars, regVars>>
  \/ DBReturn /\ UNCHANGED <<kmVars, dtVars, svmVars, somVars, mlpVars, regVars>>
  \/ DBRun /\ UNCHANGED <<kmVars, dtVars, svmVars, somVars, mlpVars, regVars>>

InitDB ==
  KMInit /\ DBInit /\ DTIdle /\ SVMIdle /\ SOMIdle /\ MLPIdle /\ RegIdle

SpecDB == InitDB /\ [][DBNext]_vars

DTNext ==
  \/ DTLoaded /\ UNCHANGED <<kmVars, dbVars, svmVars, somVars, mlpVars, regVars>>
  \/ DTSetMaxDepth /\ UNCHANGED <<kmVars, dbVars, svmVars, somVars, mlpVars, regVars>>
  \/ DTSetMinSamplesSplit /\ UNCHANGED <<kmVars, dbVars, svmVars, somVars, mlpVars, regVars>>
  \/ DTSetCriterion /\ UNCHANGED <<kmVars, dbVars, svmVars, somVars, mlpVars, regVars>>
  \/ DTReset /\ UNCHANGED <<kmVars, dbVars, svmVars, somVars, mlpVars, regVars>>
  \/ RFLoaded /\ UNCHANGED <<canvases, kmVars, dbVars, svmVars, somVars, mlpVars, regVars>>
  \/ RFSetNumberOfTrees /\ UNCHANGED <<canvases, kmVars, dbVars, svmVars, somVars, mlpVars, regVars>>
  \/ RFSetSubsampleRatio /\ UNCHANGED <<canvases, kmVars, dbVars, svmVars, somVars, mlpVars, regVars>>
  \/ RFSetFeatureSubsetRatio /\ UNCHANGED <<canvases, kmVars, dbVars, svmVars, somVars, mlpVars, regVars>>
  \/ RFSetMaxDepth /\ UNCHANGED <<canvases, kmVars, dbVars, svmVars, somVars, mlpVars, regVars>>
  \/ RFSetMinSamplesSplit /\ UNCHANGED <<canvases, kmVars, dbVars, svmVars, somVars, mlpVars, regVars>>
  \/ RFSetCriterion /\ UNCHANGED <<canvases, kmVars, dbVars, svmVars, somVars, mlpVars, regVars>>
  \/ RFReset /\ UNCHANGED <<canvases, kmVars, dbVars, svmVars, somVars, mlpVars, regVars>>

InitDT ==
  KMInit /\ DBIdle /\ (DTOpen \/ RFOpen) /\ SVMIdle /\ SOMIdle /\ MLPIdle /\ RegIdle

SpecDT == InitDT /\ [][DTNext]_vars

CanvasNext ==
  \/ RFLoaded /\ RenderEffect /\ UNCHANGED <<kmVars, dbVars, svmVars, somVars, mlpVars, regVars>>
  \/ RFSetNumberOfTrees /\ RenderEffect /\ UNCHANGED <<kmVars, dbVars, svmVars, somVars, mlpVars, regVars>>
  \/ RFSetSubsampleRatio /\ RenderEffect /\ UNCHANGED <<kmVars, dbVars, svmVars, somVars, mlpVars, regVars>>
  \/ RFSetFeatureSubsetRatio /\ RenderEffect /\ UNCHANGED <<kmVars, dbVars, svmVars, somVars, mlpVars, regVars>>
  \/ RFSetMaxDepth /\ RenderEffect /\ UNCHANGED <<kmVars, dbVars, svmVars, somVars, mlpVars, regVars>>
  \/ RFSetMinSamplesSplit /\ RenderEffect /\ UNCHANGED <<kmVars, dbVars, svmVars, somVars, mlpVars, regVars>>
  \/ RFSetCriterion /\ RenderEffect /\ UNCHANGED <<kmVars, dbVars, svmVars, somVars, mlpVars, regVars>>
  \/ RFReset /\ RenderEffect /\ UNCHANGED <<kmVars, dbVars, svmVars, somVars, mlpVars, regVars>>

InitCanvas ==
  KMInit /\ DBIdle /\ RFOpen /\ SVMIdle /\ SOMIdle /\ MLPIdle /\ RegIdle

SpecCanvas == InitCanvas /\ [][CanvasNext]_vars

VoteNext ==
  \/ RFSetSelectedIndex /\ UNCHANGED <<kmVars, dbVars, svmVars, somVars, mlpVars, regVars>>
  \/ RFPredict /\ UNCHANGED <<kmVars, dbVars, svmVars, somVars, mlpVars, regVars>>

InitVote ==
  KMInit /\ DBIdle /\ RFVoteOpen /\ SVMIdle /\ SOMIdle /\ MLPIdle /\ RegIdle

SpecVote == InitVote /\ [][VoteNext]_vars

SVMNext ==
  \/ SVMSetNoise /\ UNCHANGED <<kmVars, dbVars, dtVars, somVars, mlpVars, regVars>>
  \/ SVMSetKernel /\ UNCHANGED <<kmVars, dbVars, dtVars, somVars, mlpVars, regVars>>
  \/ SVMSetC /\ UNCHANGED <<kmVars, dbVars, dtVars, somVars, mlpVars, regVars>>
  \/ SVMSetGamma /\ UNCHANGED <<kmVars, dbVars, dtVars, somVars, mlpVars, regVars>>

InitSVM ==
  KMInit /\ DBIdle /\ DTIdle /\ SVMInit /\ SOMIdle /\ MLPIdle /\ RegIdle

SpecSVM == InitSVM /\ [][SVMNext]_vars

SOMNext ==
  \/ SOMSetGridSize /\ UNCHANGED <<kmVars, dbVars, dtVars, svmVars, mlpVars, regVars>>
  \/ SOMSetLearningRate /\ UNCHANGED <<kmVars, dbVars, dtVars, svmVars, mlpVars, regVars>>
  \/ SOMSetIterations /\ UNCHANGED <<kmVars, dbVars, dtVars, svmVars, mlpVars, regVars>>
  \/ SOMSetSigma /\ UNCHANGED <<kmVars, dbVars, dtVars, svmVars, mlpVars, regVars>>
  \/ SOMAnimate /\ UNCHANGED <<kmVars, dbVars, dtVars, svmVars, mlpVars, regVars>>
  \/ SOMAnimateToggle /\ UNCHANGED <<kmVars, dbVars, dtVars, svmVars, mlpVars, regVars>>

InitSOM ==
  KMInit /\ DBIdle /\ DTIdle /\ SVMIdle /\ SOMInit /\ MLPIdle /\ RegIdle

SpecSOM == InitSOM /\ [][SOMNext]_vars

MLPNext ==
  \/ MLPFrame /\ UNCHANGED <<kmVars, dbVars, dtVars, svmVars, somVars, regVars>>
  \/ MLPSetHiddenLayers /\ UNCHANGED <<kmVars, dbVars, dtVars, svmVars, somVars, regVars>>
  \/ MLPSetOutputNodes /\ UNCHANGED <<kmVars, dbVars, dtVars, svmVars, somVars, regVars>>
  \/ MLPSetIterations /\ UNCHANGED <<kmVars, dbVars, dtVars, svmVars, somVars, regVars>>
  \/ MLPSetLearningRate /\ UNCHANGED <<kmVars, dbVars, dtVars, svmVars, somVars, regVars>>
  \/ MLPSetActivation /\ UNCHANGED <<kmVars, dbVars, dtVars, svmVars, somVars, regVars>>

StepNext ==
  \/ MLPFrame /\ UNCHANGED <<kmVars, dbVars, dtVars, svmVars, somVars, regVars>>

InitStep ==
  KMInit /\ DBIdle /\ DTIdle /\ SVMIdle /\ SOMIdle /\ StepOpen /\ RegIdle

SpecStep == InitStep /\ [][StepNext]_vars

InitMLP ==
  KMInit /\ DBIdle /\ DTIdle /\ SVMIdle /\ SOMIdle /\ MLPInit /\ RegIdle

SpecMLP == InitMLP /\ [][MLPNext]_vars

\* The regression pages: their controls and the frames of the animation.
RegNext ==
  \/ RegSetLearningRate /\ UNCHANGED <<regFit, kmVars, dbVars, dtVars, svmVars, somVars, mlpVars>>
  \/ RegSetIterations /\ UNCHANGED <<regFit, kmVars, dbVars, dtVars, svmVars, somVars, mlpVars>>
  \/ RegSetNoise /\ UNCHANGED <<regFit, kmVars, dbVars, dtVars, svmVars, somVars, mlpVars>>
  \/ RegSetDecisionBoundary /\ UNCHANGED <<regFit, kmVars, dbVars, dtVars, svmVars, somVars, mlpVars>>
  \/ RegToggle /\ UNCHANGED <<regFit, kmVars, dbVars, dtVars, svmVars, somVars, mlpVars>>
  \/ RegLoop /\ UNCHANGED <<regFit, kmVars, dbVars, dtVars, svmVars, somVars, mlpVars>>

InitReg ==
  KMInit /\ DBIdle /\ DTIdle /\ SVMIdle /\ SOMIdle /\ MLPIdle /\ RegOpen

SpecReg == InitReg /\ [][RegNext]_vars

\* An animation left running: no control is touched after Animate.  A frame
\* that was requested and is not cancelled is run: the frames are weakly fair.
RunNext ==
  \/ RegLoop /\ UNCHANGED <<regFit, kmVars, dbVars, dtVars, svmVars, somVars, mlpVars>>

RunStarted == RegStarted /\ regFit = <<>>

InitRun ==
  KMInit /\ DBIdle /\ DTIdle /\ SVMIdle /\ SOMIdle /\ MLPIdle /\ RunStarted

SpecRun == InitRun /\ [][RunNext]_vars /\ WF_vars(RunNext)

\* The positions of the iterations slider for which the fit is followed: one
\* where currentIteration stays far below iterations, one where it grows by
\* a half per frame, one where it grows by more than one and reaches iterations.
FitIterations == {10, 50, 110}

\* The same animation with the points, w and b of every render.
FitNext ==
  \/ RegLoop /\ FitEffect /\ UNCHANGED <<kmVars, dbVars, dtVars, svmVars, somVars, mlpVars>>

FitStarted ==
  /\ RegStarted
  /\ regParams.iterations \in FitIterations
  /\ regParams.decisionBoundary = RegParams.decisionBoundary
  /\ \E s \in RegStreams :
       regFit = Fit(regPage, generatePoints(regPage, s, regParams.noise),
                    regParams.learningRate, regShown)

InitFit ==
  KMInit /\ DBIdle /\ DTIdle /\ SVMIdle /\ SOMIdle /\ MLPIdle /\ FitStarted

SpecFit == InitFit /\ [][FitNext]_vars

(***************************************************************************)
(* C1.  Once the point set and the centroid set are in place and the       *)
(* configuration is left unchanged, a run performs exactly `iterations`    *)
(* steps and then stops: when the run has executed its last step (iter =   *)
(* iterations, no frame requested) no further step is executed while the   *)
(* configuration stays the same; in particular the render that commits the *)
(* final points and centroids starts no new run.                           *)
(***************************************************************************)
C1_RunStopsAfterIterations ==
  [][(/\ iter = KMIterations
      /\ ~raf
      /\ pendData.kind # "fresh" /\ pendCentroids.kind # "fresh"
      /\ config' = config)
     => UNCHANGED <<points, centers, iter>>]_kmVars

(***************************************************************************)
(* C2.  After any step, every point's cluster index is in [0, k), k the    *)
(* number of clusters currently configured, the first step after k was     *)
(* decreased included.  (points is empty before the first step.)           *)
(***************************************************************************)
C2_ClusterInRange ==
  \A j \in 1..Len(points) :
    points[j].cluster >= 0 /\ points[j].cluster < config.clusters

(***************************************************************************)
(* C3.  While a cluster is expanded, a frontier neighbour that is still    *)
(* unvisited (-2) is labelled into the cluster and, if its own             *)
(* epsilon-neighbourhood has at least minPoints members, all its           *)
(* neighbours are in the expansion frontier after the step (the seed of    *)
(* the cluster, dbI, is labelled already and need not be).                 *)
(***************************************************************************)
C3_Step ==
  (/\ dbPc = "expand"
   /\ dbJ <= Len(neighbors)
   /\ dbJ' = dbJ + 1
   /\ dbPoints[neighbors[dbJ]].cluster = Unvisited)
  => /\ dbPoints'[neighbors[dbJ]].cluster = clusterIndex
     /\ Len(getNeighbors(dbPoints, neighbors[dbJ], epsilon)) >= minPoints
          => \A q \in 1..Len(dbPoints) \ {dbI} :
               Includes(getNeighbors(dbPoints, neighbors[dbJ], epsilon), q)
                 => Includes(neighbors', q)

C4_NoiseMonotoneInEpsilon ==
  \A e1, e2 \in DBEpsilons :
    (e1 < e2 /\ noiseRuns[e1] >= 0 /\ noiseRuns[e2] >= 0)
      => noiseRuns[e2] <= noiseRuns[e1]

(***************************************************************************)
(* C5.  When the run has finished every point is labelled: no point is     *)
(* still unvisited (-2); each is noise (-1) or carries the id of a cluster *)
(* that the run created (1..clusterIndex).                                 *)
(***************************************************************************)
C5_AllLabelledAtEnd ==
  dbPc = "done" =>
    \A i \in 1..Len(dbPoints) :
      \/ dbPoints[i].cluster = Noise
      \/ dbPoints[i].cluster \in 1..clusterIndex

\* A finished run that left a noise point and a clustered point.
C5_Witness ==
  /\ dbPc = "done"
  /\ \E i \in 1..Len(dbPoints) : dbPoints[i].cluster = Noise
  /\ \E i \in 1..Len(dbPoints) : dbPoints[i].cluster >= 1

(***************************************************************************)
(* C6.  First come, first served: during a run, a point that has a         *)
(* positive cluster id keeps it in every later step, and the main loop     *)
(* skips such a point: it changes no label and opens no cluster.           *)
(***************************************************************************)
C6_Step ==
  dbPc \in {"visit", "expand"} =>
    /\ \A i \in 1..Len(dbPoints) :
         dbPoints[i].cluster >= 1 => dbPoints'[i].cluster = dbPoints[i].cluster
    /\ (dbPc = "visit" /\ dbI <= Len(dbPoints) /\ dbPoints[dbI].cluster >= 1)
         => (dbPoints' = dbPoints /\ clusterIndex' = clusterIndex)

\* C6: every step of a run is as C6_Step says.
C6_FirstComeFirstServed == [][C6_Step]_vars

\* The expansion of a later cluster has just processed a frontier point that
\* carries the id of an earlier cluster (the point is within epsilon of the
\* seed of the later cluster).
C6_Witness ==
  /\ dbPc = "expand"
  /\ dbJ > 1
  /\ dbPoints[neighbors[dbJ - 1]].cluster >= 1
  /\ dbPoints[neighbors[dbJ - 1]].cluster < clusterIndex
  /\ Within(dbPoints[neighbors[dbJ - 1]], dbPoints[dbI], epsilon)


(***************************************************************************)
(* The trees on the page, and what the claims say of a node nd of tree t.  *)
(***************************************************************************)
Trees == IF page = "forest" THEN {forest[i] : i \in 1..Len(forest)} ELSE {tree}

HasChild(t, nd, side) == \E c \in t : c.path = nd.path \o <<side>>

IsLeaf(t, nd) == ~HasChild(t, nd, 0) /\ ~HasChild(t, nd, 1)

\* The impurity function the page selects for params.criterion.
PageImpurityFn ==
  IF page = "forest" THEN ImpurityFnRF(params.criterion) ELSE ImpurityFn(params.criterion)

\* The class that occurs most often among labels, the lowest index on a tie.
Majority(labels) ==
  CHOOSE c \in 0..2 :
    /\ \A e \in 0..2 : Count(labels, e) <= Count(labels, c)
    /\ \A e \in 0..(c - 1) : Count(labels, e) < Count(labels, c)

\* Gain a is larger than gain b.
Exceeds(a, b) == a.num * b.den > b.num * a.den

\* Candidate c splits d into two non-empty parts with a gain above 0.
PositiveGain(d, c) ==
  Splits(d, c) /\ Exceeds(CandidateGain(d, PageImpurityFn, c), ZeroGain(PageImpurityFn))

\* The candidates of node nd: over the features its findBestSplit was given.
NodeCandidates(nd) == Candidates(nd.data, nd.features, 1)

(***************************************************************************)
(* C7.  The value of every leaf of every tree (single tree and forest) is  *)
(* the majority class of the partition that reached the leaf, ties going   *)
(* to the lowest class index.                                              *)
(***************************************************************************)
C7_LeafIsMajority ==
  \A t \in Trees : \A nd \in t :
    (IsLeaf(t, nd) /\ Len(nd.data) > 0) => nd.value = Majority(Labels(nd.data))

(***************************************************************************)
(* C8.  The value of every leaf is one of the class indices 0, 1, 2, never *)
(* NaN, also for the tree built before the dataset has loaded; and it is   *)
(* the label of some record of the partition that reached the leaf.        *)
(***************************************************************************)
C8_LeafValueOccurs ==
  \A t \in Trees : \A nd \in t :
    IsLeaf(t, nd) =>
      /\ nd.value \in 0..2
      /\ Len(nd.data) > 0 => \E i \in 1..Len(nd.data) : Labels(nd.data)[i] = nd.value

(***************************************************************************)
(* C9.  A node is a leaf exactly when its depth has reached maxDepth, or   *)
(* its partition has fewer than minSamplesSplit records, or no candidate   *)
(* split of the partition has a gain above 0; every other node is internal *)
(* and has both children, one level deeper.  No node is deeper than        *)
(* maxDepth.                                                               *)
(***************************************************************************)
C9_LeafExactlyWhenStopped ==
  \A t \in Trees : \A nd \in t :
    /\ nd.depth <= params.maxDepth
    /\ IsLeaf(t, nd) <=>
         \/ nd.depth >= params.maxDepth
         \/ Len(nd.data) < params.minSamplesSplit
         \/ \A k \in 1..Len(NodeCandidates(nd)) : ~PositiveGain(nd.data, NodeCandidates(nd)[k])
    /\ ~IsLeaf(t, nd) =>
         \A side \in {0, 1} :
           \E c \in t : c.path = nd.path \o <<side>> /\ c.depth = nd.depth + 1

\* A tree with an internal node and with a leaf that only the depth limit
\* made a leaf: its partition is large enough and has a split of positive gain.
C9_Witness ==
  \E t \in Trees :
    /\ \E nd \in t : ~IsLeaf(t, nd)
    /\ \E nd \in t :
         /\ IsLeaf(t, nd)
         /\ nd.depth >= params.maxDepth
         /\ Len(nd.data) >= params.minSamplesSplit
         /\ \E k \in 1..Len(Candidates(nd.data, <<0, 1>>, 1)) :
              PositiveGain(nd.data, Candidates(nd.data, <<0, 1>>, 1)[k])

(***************************************************************************)
(* C10, as amended.  The split of an internal node is a candidate of the   *)
(* node (a midpoint of two consecutive distinct values of a feature the    *)
(* node was given) of positive gain, no candidate has a larger gain, and   *)
(* among the candidates of that gain it is the first tried: the features   *)
(* are tried in the order of the node's feature list ([0, 1] in the single *)
(* tree, the shuffled subset in a forest tree), the thresholds of a        *)
(* feature in ascending order.                                             *)
(***************************************************************************)
C10_FirstTriedBestSplit ==
  \A t \in Trees : \A nd \in t :
    ~IsLeaf(t, nd) =>
      \E k \in 1..Len(NodeCandidates(nd)) :
        /\ NodeCandidates(nd)[k] = [feature |-> nd.feature, threshold |-> nd.threshold]
        /\ PositiveGain(nd.data, NodeCandidates(nd)[k])
        /\ \A j \in 1..Len(NodeCandidates(nd)) :
             ~Exceeds(CandidateGain(nd.data, PageImpurityFn, NodeCandidates(nd)[j]),
                          CandidateGain(nd.data, PageImpurityFn, NodeCandidates(nd)[k]))
        /\ \A j \in 1..(k - 1) :
             Exceeds(CandidateGain(nd.data, PageImpurityFn, NodeCandidates(nd)[k]),
                         CandidateGain(nd.data, PageImpurityFn, NodeCandidates(nd)[j]))

(***************************************************************************)
(* C10, as stated.  The split of an internal node has the largest gain of  *)
(* the node's candidates, and among the candidates of that gain it has the *)
(* lowest feature index and then the lowest threshold.                     *)
(***************************************************************************)
C10_LowestFeatureBestSplit ==
  \A t \in Trees : \A nd \in t :
    ~IsLeaf(t, nd) =>
      \A k \in 1..Len(NodeCandidates(nd)) :
        LET c == NodeCandidates(nd)[k]
            own == [feature |-> nd.feature, threshold |-> nd.threshold]
        IN /\ ~Exceeds(CandidateGain(nd.data, PageImpurityFn, c),
                           CandidateGain(nd.data, PageImpurityFn, own))
           /\ CandidateGain(nd.data, PageImpurityFn, c)
                = CandidateGain(nd.data, PageImpurityFn, own)
                => \/ nd.feature < c.feature
                   \/ nd.feature = c.feature /\ nd.threshold <= c.threshold

\* A forest tree has a node that was given the features in the order 1, 0 and
\* split on feature 1 although a threshold of feature 0 has the same gain.
C10_Witness ==
  /\ page = "forest"
  /\ \E t \in Trees : \E nd \in t :
       /\ ~IsLeaf(t, nd)
       /\ nd.features = <<1, 0>>
       /\ nd.feature = 1
       /\ \E k \in 1..Len(Thresholds(nd.data, 0)) :
            CandidateGain(nd.data, PageImpurityFn,
                          [feature |-> 0, threshold |-> Thresholds(nd.data, 0)[k]])
              = CandidateGain(nd.data, PageImpurityFn,
                              [feature |-> nd.feature, threshold |-> nd.threshold])

(***************************************************************************)
(* C11.  majorityVote returns as final the class predicted by the most     *)
(* trees, the lowest class index on a tie, and as votes the predictions    *)
(* of the trees in the order of the forest.                                *)
(***************************************************************************)
C11_Step ==
  (prediction' # prediction \/ individualVotes' # individualVotes) =>
    /\ individualVotes' = [i \in 1..Len(forest) |->
                             predict(forest[i], irisDataset[selectedIndex + 1])]
    /\ prediction' = Majority(individualVotes')

C11_MajorityVote == [][C11_Step]_vars

\* Three trees have voted, the first unlike the two others, whose class won.
C11_Witness ==
  /\ Len(individualVotes) = 3
  /\ individualVotes[1] # individualVotes[2]
  /\ individualVotes[2] = individualVotes[3]
  /\ prediction = individualVotes[2]

(***************************************************************************)
(* C12.  The tree drawn on canvas i of the forest page is forest[i], the   *)
(* tree majorityVote consults: drawing builds no tree of its own.          *)
(***************************************************************************)
C12_CanvasShowsForest ==
  (page = "forest" /\ Len(irisDataset) > 0) =>
    /\ Len(canvases) = Len(forest)
    /\ \A i \in 1..Len(forest) : canvases[i] = forest[i]

(***************************************************************************)
(* C17.  K-Means: a change of the point count or of k regenerates both the *)
(* point set and the centroid set from fresh randomness; an animation      *)
(* frame regenerates neither.                                              *)
(***************************************************************************)
C17_Step ==
  /\ config' # config => (pendData' = Fresh /\ pendCentroids' = Fresh)
  /\ config' = config => (pendData' # Fresh /\ pendCentroids' # Fresh)

C17_BothRegenerated == [][C17_Step]_vars

(***************************************************************************)
(* C18.  After the update sub-step every centroid that points were         *)
(* assigned to is the mean of those points, and every centroid with no     *)
(* point is at a random point of the domain; no mean divides by 0.         *)
(* (points and centers are those the last step left: the assignment and    *)
(* the centroids updated from it.)                                         *)
(***************************************************************************)
Assigned(c) == SumFrom(points, c, 1, [x |-> 0, y |-> 0, count |-> 0])

IsMean(cen, c) ==
  /\ cen.n # 0
  /\ cen.x * Assigned(c).count = cen.n * Assigned(c).x
  /\ cen.y * Assigned(c).count = cen.n * Assigned(c).y

IsRandomPoint(cen) ==
  \E r \in KMRandomCentroids : cen.n # 0 /\ cen.x = r.x * cen.n /\ cen.y = r.y * cen.n

C18_MeanOrReseeded ==
  /\ \A j \in 1..Len(points) :
       /\ points[j].cluster + 1 \in 1..Len(centers)
       /\ IsMean(centers[points[j].cluster + 1], points[j].cluster)
  /\ \A c \in 1..Len(centers) :
       Assigned(c - 1).count = 0 => IsRandomPoint(centers[c])

(***************************************************************************)
(* C19.  With the point set and k fixed, the sum of the squared distances  *)
(* of the points to their assigned centroids, measured right after the     *)
(* assignment sub-step, does not increase from one step to the next, a     *)
(* step that re-seeded an empty cluster included.  (The steps compared are *)
(* those of one run and the first step of the run that the commit of the   *)
(* previous run starts; a step on freshly drawn points or centroids, or    *)
(* with a changed configuration, begins a new comparison.)                 *)
(***************************************************************************)
C19_Step ==
  (/\ config' = config
   /\ pendData # Fresh /\ pendCentroids # Fresh
   /\ iter >= 1)
  => ~FracLess(cost, cost')

C19_CostNonIncreasing == [][C19_Step]_vars

\* A step has measured a cost above 0 and has re-seeded a cluster that its
\* assignment left empty; the next step of the run, which the formula
\* compares with this one, is requested.
C19_Witness ==
  /\ iter >= 1
  /\ raf /\ pendData = None /\ pendCentroids = None
  /\ cost[1] > 0 /\ cost[2] > 0
  /\ \E c \in 1..Len(centers) : Assigned(c - 1).count = 0

(***************************************************************************)
(* C14.  The SVM points are regenerated when noise changes and when the    *)
(* kernel type changes, and are held fixed across changes of C and gamma.  *)
(***************************************************************************)
C14_Step ==
  /\ (svmParams'.noise # svmParams.noise \/ svmParams'.kernel # svmParams.kernel)
       => svmEffect' = "generate"
  /\ (svmParams'.noise = svmParams.noise /\ svmParams'.kernel = svmParams.kernel)
       => svmPoints' = svmPoints

C14_RegeneratedOnNoiseOrKernel == [][C14_Step]_vars

BelowCutoff(p) ==
  Abs(predictRawBase(p.x, p.y, svmPoints, svmParams, 1)) * svmParams.c[1]
    < svmParams.c[2] * SVMScale

C16_CoefficientByCutoff ==
  \A i \in 1..Len(svmPoints) :
    /\ svmParams.c[1] > 0 /\ svmParams.c[2] > 0
    /\ alphas(svmPoints, svmParams)[i] =
         IF BelowCutoff(svmPoints[i])
         THEN (IF svmPoints[i].label = 1 THEN svmParams.c
               ELSE <<0 - svmParams.c[1], svmParams.c[2]>>)
         ELSE <<0, 1>>

\* One point has the coefficient +C, another the coefficient 0 with its raw
\* value exactly at the cutoff.
C16_Witness ==
  \E i, j \in 1..Len(svmPoints) :
    /\ alphas(svmPoints, svmParams)[i] = svmParams.c
    /\ alphas(svmPoints, svmParams)[j] = <<0, 1>>
    /\ Abs(predictRawBase(svmPoints[j].x, svmPoints[j].y, svmPoints, svmParams, 1))
           * svmParams.c[1] = svmParams.c[2] * SVMScale

(***************************************************************************)
(* C20.  SOM topology: the grid holds gridSize x gridSize neurons, the     *)
(* neuron at index i * gridSize + j has the coordinates (i, j), so that    *)
(* the coordinates are a bijection onto [0, gridSize)^2; this holds of     *)
(* every grid a render has built and trained, so that training has moved   *)
(* weights (x, y) only.                                                    *)
(***************************************************************************)
C20_GridTopology ==
  somGrid # <<>> =>
    /\ Len(somGrid) = somParams.gridSize * somParams.gridSize
    /\ \A i \in 0..(somParams.gridSize - 1) : \A j \in 0..(somParams.gridSize - 1) :
         /\ somGrid[i * somParams.gridSize + j + 1].i = i
         /\ somGrid[i * somParams.gridSize + j + 1].j = j

\* A render has trained a grid of more than one row for two iterations, and
\* the neuron (0, 1) is no longer where the initialisation put it.
C20_Witness ==
  /\ currentFrame >= 2
  /\ somParams.iterations >= 2
  /\ Len(somGrid) > 2
  /\ somGrid[2].i = 0
  /\ somGrid[2].j = 1
  /\ somGrid[2] # SOMNode(0, 1, somParams.gridSize)

(***************************************************************************)
(* C13.  Frame-driven engines carry no trained state from one invocation   *)
(* into the next: what an invocation leaves is the trajectory recomputed   *)
(* from the initial parameters up to the counter.  Of the perceptron: the  *)
(* network of the page is the network createNetwork() returned, trained    *)
(* for iter steps under the configuration of the page.                     *)
(***************************************************************************)
RECURSIVE TrainedFrom(_, _, _)
TrainedFrom(net, n, cfg) ==
  IF n = 0 THEN net ELSE TrainedFrom(trainStepMLP(net, cfg), n - 1, cfg)

C13_RecomputedFromInitial ==
  created # <<>> =>
    /\ layers = TrainedFrom(created, mlpIter, mlpConfig)
    /\ networkRef = layers

(***************************************************************************)
(* C21.  Backpropagation on a network of the output layer alone with the   *)
(* identity activation: one training step changes the weight of input i to *)
(* output node j by -lr * (output_j - target_j) * input_i and the bias of  *)
(* node j by -lr * (output_j - target_j), output_j being what the weights  *)
(* and the bias gave before the step.                                      *)
(***************************************************************************)
OutputBefore(layer, j) ==
  layer.biases[j]
    + (layer.weights[j][1] * mlpInput[1] + layer.weights[j][2] * mlpInput[2]) \div MLPScale

GradientStep(layer, j, lr) == (lr * (OutputBefore(layer, j) - mlpTarget)) \div MLPScale

C21_Step ==
  (Len(layers) = 1 /\ mlpConfig.activation = "identity") =>
    /\ Len(layers') = 1
    /\ \A j \in 1..mlpConfig.outputNodes :
         /\ layers'[1].biases[j]
              = layers[1].biases[j] - GradientStep(layers[1], j, mlpConfig.learningRate)
         /\ \A i \in 1..Len(mlpInput) :
              layers'[1].weights[j][i]
                = layers[1].weights[j][i]
                    - (GradientStep(layers[1], j, mlpConfig.learningRate) * mlpInput[i])
                        \div MLPScale

C21_ClosedFormUpdate == [][C21_Step]_vars

\* A step with the identity activation has moved both weights and the bias
\* of the output node of a one-layer network.
C21_Witness ==
  /\ Len(layers) = 1
  /\ mlpConfig.activation = "identity"
  /\ mlpUpdates >= 1
  /\ layers[1].biases[1] # created[1].biases[1]
  /\ layers[1].weights[1][1] # created[1].weights[1][1]
  /\ layers[1].weights[1][2] # created[1].weights[1][2]

(***************************************************************************)
(* C22.  Perceptron run length: the run the training effect started last   *)
(* has made iter steps, between 1 and `iterations`; it has a step on the   *)
(* animation-frame queue exactly while iter < iterations; a frame makes    *)
(* one step (iter grows by one); and the canvas shows the network of the   *)
(* last step.  A run left alone therefore makes exactly `iterations` steps *)
(* and then requests nothing.                                              *)
(***************************************************************************)
LiveRequests == {f \in pending : f.live}

C22_RunState ==
  created # <<>> =>
    /\ mlpIter \in 1..mlpConfig.iterations
    /\ (LiveRequests # {}) <=> (mlpIter < mlpConfig.iterations)
    /\ \A f \in LiveRequests : f.iter = mlpIter /\ f.config = mlpConfig
    /\ drawn.layers = layers

C22_Step ==
  /\ C22_RunState
  /\ C22_RunState'
  /\ (mlpConfig' = mlpConfig /\ created # <<>>) =>
       /\ LiveRequests # {}
       /\ mlpIter' = mlpIter + 1
       /\ layers' = trainStepMLP(layers, mlpConfig)

C22_RunLength == [][C22_Step]_vars

\* A run of two iterations that nothing superseded has made its two steps on
\* the network as created and has nothing left on the queue.
C22_Witness ==
  /\ created # <<>>
  /\ mlpConfig.iterations = 2
  /\ mlpIter = 2
  /\ mlpUpdates = 2
  /\ pending = {}
  /\ layers = trainStepMLP(trainStepMLP(created, mlpConfig), mlpConfig)

(***************************************************************************)
(* C23.  Perceptron cancellation: under every interleaving of              *)
(* configuration changes and frames, the animation-frame queue holds at    *)
(* most one request for step; it is the one animRef.current names, its     *)
(* closure is that of the run the training effect started last, and it     *)
(* holds the network of the ref; and every write of the ref is made by     *)
(* that run.  No step of a superseded run is ever run.                     *)
(***************************************************************************)
C23_QueueState ==
  /\ Cardinality(pending) <= 1
  /\ \A f \in pending : f.live /\ f.id = animRef /\ f.layers = networkRef

C23_Step ==
  /\ C23_QueueState
  /\ C23_QueueState'
  /\ networkRef' # networkRef => layers' = networkRef'

C23_OneLiveLoop == [][C23_Step]_vars

\* A configuration change has just cancelled the request of the run before,
\* and the run it started has its own request on the queue.
C23_Witness ==
  /\ cancelled
  /\ mlpIter = 1
  /\ Cardinality(pending) = 1

(***************************************************************************)
(* C30.  Perceptron display consistency: the activations drawn in a frame  *)
(* (and the MSE, which draw computes from the last of them) are those of   *)
(* a forward pass through the weights and biases drawn in the same frame.  *)
(***************************************************************************)
C30_DrawnForwardPass ==
  drawn # <<>> => drawn.acts = forwardPass(drawn.layers, mlpConfig.activation)

(***************************************************************************)
(* C24.  Once the dataset has loaded, the impurity recorded on every leaf  *)
(* of every tree (single tree and forest) is the impurity of the leaf's    *)
(* partition under the impurity function the page selects for the          *)
(* criterion.                                                              *)
(***************************************************************************)
\* imp stands for the impurity 0: the number 0 itself, or what the impurity
\* function gives for a pure partition (the entropy is held as 2^(n * entropy)).
IsZeroImpurity(impurityFn, imp) == imp = ZeroImpurity \/ imp = ZeroGain(impurityFn)

C24_LeafImpurity ==
  irisDataset # <<>> =>
    \A t \in Trees : \A nd \in t :
      IsLeaf(t, nd) =>
        \/ nd.impurity = Impurity(PageImpurityFn, Labels(nd.data))
        \/ /\ IsZeroImpurity(PageImpurityFn, nd.impurity)
           /\ IsZeroImpurity(PageImpurityFn, Impurity(PageImpurityFn, Labels(nd.data)))

(***************************************************************************)
(* C29.  On the single-tree page, whatever was chosen in the criterion     *)
(* select and however often Reset was pressed, the tree on the page is the *)
(* one built with Gini impurity when the selected criterion is Gini (in    *)
(* either spelling) and with entropy when it is Entropy.                   *)
(***************************************************************************)
SelectedImpurityFn == IF ToLowerCase(params.criterion) = "gini" THEN "gini" ELSE "entropy"

C29_TreeOfSelectedCriterion ==
  page = "tree" =>
    tree = renderDecisionTree(irisDataset, [params EXCEPT !.criterion = SelectedImpurityFn])

(***************************************************************************)
(* C25.  On the forest page with a loaded dataset the forest holds exactly *)
(* numberOfTrees trees; the root of each holds a sample of                 *)
(* floor(datasetSize x subsampleRatio) records in which no record occurs   *)
(* more often than in the dataset; and each tree is one that buildTree     *)
(* returns for its sample and the current maxDepth, minSamplesSplit and    *)
(* criterion.                                                              *)
(***************************************************************************)
RootData(t) == (CHOOSE nd \in t : nd.path = <<>>).data

Occurrences(d, rec) == Cardinality({i \in 1..Len(d) : d[i] = rec})

C25_ForestOfSubsamples ==
  (page = "forest" /\ irisDataset # <<>>) =>
    /\ Len(forest) = params.numberOfTrees
    /\ \A i \in 1..Len(forest) :
         /\ Len(RootData(forest[i])) = (Len(irisDataset) * params.subsampleRatio) \div 100
         /\ \A rec \in DTRecords :
              Occurrences(RootData(forest[i]), rec) <= Occurrences(irisDataset, rec)
         /\ forest[i] \in buildTreeRF(RootData(forest[i]), 0, <<>>, params.maxDepth,
                                      params.minSamplesSplit, params.criterion,
                                      params.featureSubsetRatio)

\* After a change of the controls, two trees grown on different subsamples of
\* a dataset of two different records.
C25_Witness ==
  /\ page = "forest"
  /\ irisDataset # <<>>
  /\ params # RFParams
  /\ Len(forest) = 2
  /\ RootData(forest[1]) # RootData(forest[2])

(***************************************************************************)
(* C27.  The dataset of the SOM page is fixed for the lifetime of the      *)
(* page: every render, after a frame of the animation as after a change of *)
(* a parameter, trains on and draws the dataset of the render before.      *)
(***************************************************************************)
C27_Step == (somGrid # <<>> /\ somGrid' # <<>>) => fixedData' = fixedData

C27_DatasetFixed == [][C27_Step]_vars

(***************************************************************************)
(* C26.  In every render of a regression page the number of gradient steps *)
(* performed, currentIteration, lies in 1..iterations; it does not         *)
(* decrease when frame grows and the parameters stay; and the w and b      *)
(* drawn are the result of exactly currentIteration batch updates from     *)
(* (0, 0) on the points of the render.                                     *)
(***************************************************************************)
\* The pairs (w, b) of S after n more batch updates each.
RECURSIVE BatchUpdates(_, _, _, _, _)
BatchUpdates(pg, pts, lr, S, n) ==
  IF n = 0 THEN S
  ELSE UNION {BatchUpdates(pg, pts, lr, {gradientStep(pg, pts, lr, wb.w, wb.b)}, n - 1) :
                wb \in S}

C26_Progress ==
  regFit # <<>> =>
    /\ regShown \in 1..regParams.iterations
    /\ [w |-> regFit.w, b |-> regFit.b]
         \in BatchUpdates(regPage, regFit.points, regParams.learningRate,
                          {[w |-> 0, b |-> 0]}, regShown)

\* (Every state but the first is the second state of a step.)
C26_Step ==
  /\ regFrame = 0 => C26_Progress
  /\ C26_Progress'
  /\ (regParams' = regParams /\ regFrame' >= regFrame) => regShown' >= regShown

C26_TrainingProgress == [][C26_Step]_vars

\* A render in the middle of an animation: some frames have passed, more than
\* two and fewer than iterations steps were performed, and w has moved.
C26_Witness ==
  /\ regFit # <<>>
  /\ regFrame >= 2
  /\ regShown >= 3
  /\ regShown < regParams.iterations
  /\ regFit.w # 0

(***************************************************************************)
(* C28.  An animation that was started and is left running, the parameters *)
(* unchanged: frame advances by one per tick, and the number of completed  *)
(* training steps the page shows eventually equals iterations, for every   *)
(* position of the iterations slider (10 to 200 in steps of 10).           *)
(***************************************************************************)
C28_AnimationCompletes ==
  /\ [][regFrame' = regFrame + 1]_regFrame
  /\ <>(regShown = regParams.iterations)


====
